---- MODULE Spec2Model ----
(***************************************************************************)
(* ONTraC niche trajectory: the path solver get_niche_trajectory_path      *)
(* (strategies 'BF' and 'TSP'), the score mapper                           *)
(* trajectory_path_to_NC_score and the score propagator                    *)
(* niche_to_cell_NTScore of                                                *)
(* src/src/ONTraC/niche_trajectory/_niche_trajectory.py.                   *)
(*                                                                         *)
(* Conventions.  Node indices are the source's, 0..n-1.  A matrix is a     *)
(* function from row index to a function from column index to an integer   *)
(* weight.  A Python list is a TLA+ sequence, so the Python position i is   *)
(* the sequence position i+1.  Weights are integers (the source holds       *)
(* floats; only sums and comparisons of weights are taken).                *)
(***************************************************************************)
EXTENDS Integers, Sequences, FiniteSets, TLC

\* ---------------------------------------------------------------- bounds
\* Largest number of nodes of a connectivity matrix that is drawn.
MaxN == 4
\* Largest weight of a matrix entry.
MaxW == 2
\* Largest number of cells (and niches) of a sample.
MaxCells == 2
\* Largest number of samples of a dataset.
MaxSamples == 2
\* Largest number of calls of the solver in a row.
MaxCalls == 3
\* Largest value of max_epochs and of min_epochs.
MaxEpochs == 4
\* Largest value of max_patience.
MaxPatience == 2
\* Largest loss that train_epoch returns.
MaxLoss == 2
\* Largest number of parts of a dataset path.
MaxPathLen == 3

\* ------------------------------------------------------- python helpers
\* range(n)
Range(n) == 0 .. (n - 1)

\* len(niche_adj_matrix): the number of rows
MatLen(M) == Cardinality(DOMAIN M)

\* the index pair (i, j) exists in M (numpy raises IndexError otherwise)
InBounds(M, i, j) == i \in DOMAIN M /\ j \in DOMAIN M[i]

\* list(range(n)) as a sequence
RangeSeq(n) == [i \in 1 .. n |-> i - 1]

\* s without its element at sequence position i
RemoveAt(s, i) == [j \in 1 .. (Len(s) - 1) |-> IF j < i THEN s[j] ELSE s[j + 1]]

\* Mutant of Reverse: the list is left as it is.
Reverse_Noop(s) == s

\* list.reverse()
Reverse(s) == [j \in 1 .. Len(s) |-> s[Len(s) + 1 - j]]

\* the set of elements of a list
Elems(s) == {s[j] : j \in 1 .. Len(s)}

\* Python's list comparison a < b
RECURSIVE LexLess(_, _)
LexLess(a, b) ==
    IF a = <<>> THEN b # <<>>
    ELSE IF b = <<>> THEN FALSE
    ELSE IF a[1] # b[1] THEN a[1] < b[1]
    ELSE LexLess(Tail(a), Tail(b))

\* Python's tuple comparison on (value, path) pairs
TupleLess(a, b) == a[1] < b[1] \/ (a[1] = b[1] /\ LexLess(a[2], b[2]))

\* Mutant of MaxTuple: the pairs are compared by their values alone, so the
\* first item of maximal value is taken.
MaxTuple_ByValue(res) ==
    LET best == CHOOSE i \in 1 .. Len(res) :
                    /\ \A j \in 1 .. Len(res) : res[j][1] <= res[i][1]
                    /\ \A j \in 1 .. (i - 1) : res[j][1] < res[i][1]
    IN  res[best]

\* max(res) for a non-empty list of (value, path) pairs: the first maximal item
MaxTuple(res) ==
    LET best == CHOOSE i \in 1 .. Len(res) :
                    /\ \A j \in 1 .. Len(res) : ~TupleLess(res[i], res[j])
                    /\ \A j \in 1 .. (i - 1) : TupleLess(res[j], res[i])
    IN  res[best]

\* itertools.permutations(pool): every permutation, in lexicographic order of
\* the positions of pool
RECURSIVE LexPerms(_)
RECURSIVE LexPermsFrom(_, _)
LexPermsFrom(pool, i) ==
    IF i > Len(pool) THEN <<>>
    ELSE LET rest == LexPerms(RemoveAt(pool, i))
         IN  [j \in 1 .. Len(rest) |-> <<pool[i]>> \o rest[j]] \o LexPermsFrom(pool, i + 1)
LexPerms(pool) == IF pool = <<>> THEN << <<>> >> ELSE LexPermsFrom(pool, 1)

\* itertools.permutations(range(n)) for every n that is drawn
PermutationsOfRange == [n \in 0 .. (MaxN + 1) |-> LexPerms(RangeSeq(n))]

\* f[1] + ... + f[k]
RECURSIVE SumUpTo(_, _)
SumUpTo(f, k) == IF k <= 0 THEN 0 ELSE f[k] + SumUpTo(f, k - 1)

\* Mutant of PathConnectivity: the range of line 47 taken as range(len(path)),
\* with the index wrapping around, so the closing edge is counted too.
PathConnectivity_Wraparound(M, p) ==
    SumUpTo([i \in 1 .. Len(p) |-> M[p[i]][p[(i % Len(p)) + 1]]], Len(p))

\* Mutant of PathConnectivity: the self-loop of the first node of the path
\* is counted as well.
PathConnectivity_SelfLoop(M, p) ==
    SumUpTo([i \in 1 .. (Len(p) - 1) |-> M[p[i]][p[i + 1]]], Len(p) - 1)
        + (IF Len(p) = 0 THEN 0 ELSE M[p[1]][p[1]])

\* Mutant of PathConnectivity: the range of line 47 taken as
\* range(1, len(path) - 1), which leaves out the first edge.
PathConnectivity_SkipFirst(M, p) ==
    IF Len(p) < 3 THEN 0
    ELSE SumUpTo([i \in 1 .. (Len(p) - 2) |-> M[p[i + 1]][p[i + 2]]], Len(p) - 2)

\* sum of matrix[path[i], path[i+1]] over the consecutive pairs of path
RECURSIVE PathConnectivity(_, _)
PathConnectivity(M, p) ==
    IF Len(p) < 2 THEN 0
    ELSE M[p[1]][p[2]] + PathConnectivity(M, Tail(p))

\* every index pair read by the sum above exists
PathInBounds(M, p) == \A i \in 1 .. (Len(p) - 1) : InBounds(M, p[i], p[i + 1])

\* float('-inf'): below every sum of at most MaxN+1 weights, each >= -1
NegInf == 0 - ((MaxN + 2) * (MaxW + 1))

\* a local name that is not bound to a value yet
Unbound == <<0 - 1>>

\* ------------------------------------------------------------- inputs
\* the ordered pairs of distinct nodes, and the unordered ones
OffPairs(n) == {pr \in Range(n) \X Range(n) : pr[1] # pr[2]}
UnorderedPairs(n) == {pr \in Range(n) \X Range(n) : pr[1] < pr[2]}

\* the n x n matrix with off-diagonal entries off and diagonal entries d
MatrixOf(n, off, d) ==
    [i \in Range(n) |-> [j \in Range(n) |-> IF i = j THEN d ELSE off[<<i, j>>]]]

\* the symmetric n x n matrix with zero diagonal and pair weights w
SymmetricOf(n, w) ==
    [i \in Range(n) |-> [j \in Range(n) |->
        IF i = j THEN 0 ELSE IF i < j THEN w[<<i, j>>] ELSE w[<<j, i>>]]]

\* the r x c matrix with entries e
RectOf(r, c, e) == [i \in Range(r) |-> [j \in Range(c) |-> e[<<i, j>>]]]

\* Small matrices: every weight 0..MaxW off the diagonal, asymmetric ones
\* included, and a diagonal of 0 or MaxW.
SmallMatrices ==
    UNION {{MatrixOf(n, off, d) : off \in [OffPairs(n) -> 0 .. MaxW], d \in {0, MaxW}}
           : n \in 2 .. (MaxN - 2)}

\* Matrices over MaxN-1 nodes: every adjacency absent (0) or of full strength
\* (MaxW), asymmetric ones included, and a diagonal of 0 or MaxW.
TwoValuedMatrices ==
    {MatrixOf(MaxN - 1, off, d) : off \in [OffPairs(MaxN - 1) -> {0, MaxW}], d \in {0, MaxW}}

\* Symmetric matrices over MaxN nodes with one pair of weight MaxW and every
\* other pair of weight 0 or 1.
DominantEdgeMatrices ==
    {SymmetricOf(MaxN, [pr \in UnorderedPairs(MaxN) |-> IF pr = e THEN MaxW ELSE rest[pr]])
       : e \in UnorderedPairs(MaxN), rest \in [UnorderedPairs(MaxN) -> {0, 1}]}

\* the matrices inside the solver's precondition: square, non-negative, n >= 2
ValidMatrices == SmallMatrices \cup TwoValuedMatrices \cup DominantEdgeMatrices

\* matrices with fewer than two nodes
TinyMatrices == {<<>>} \cup {MatrixOf(1, <<>>, d) : d \in 0 .. MaxW}

\* 2 x 2 matrices with at least one negative entry
NegativeMatrices ==
    {m \in {MatrixOf(2, off, d) : off \in [OffPairs(2) -> (0 - 1) .. MaxW], d \in {0 - 1, 0}}
       : \E i \in Range(2), j \in Range(2) : m[i][j] < 0}

\* matrices with one column more or one column less than rows
NonSquareMatrices ==
    UNION {{RectOf(r, c, e) : e \in [Range(r) \X Range(c) -> {0, MaxW}]}
           : <<r, c>> \in {rc \in (1 .. (MaxN - 2)) \X (1 .. (MaxN - 1)) :
                             rc[2] = rc[1] + 1 \/ rc[2] = rc[1] - 1}}

InvalidMatrices == TinyMatrices \cup NegativeMatrices \cup NonSquareMatrices

IsSquare(M) == \A i \in DOMAIN M : DOMAIN M[i] = DOMAIN M
IsNonNegative(M) == \A i \in DOMAIN M : \A j \in DOMAIN M[i] : M[i][j] >= 0
IsValid(M) == IsSquare(M) /\ IsNonNegative(M) /\ MatLen(M) >= 2

\* the values of options.trajectory_construct that are drawn
Strategies == {"BF", "TSP", "other"}

\* -------------------------------------------------------------- state
VARIABLES
    trajectory_construct,   \* options.trajectory_construct
    niche_adj_matrix,       \* the argument niche_adj_matrix
    pc,                     \* the position in the running function
    outcome,                \* "running", "returned", or the exception raised
    max_connectivity,       \* BF: best connectivity so far
    niche_trajectory_path,  \* the list that is returned
    path,                   \* BF: the loop variable `path`
    perm_idx,               \* BF: position of the permutations iterator
    C,                      \* TSP: the table keyed by (bits, k)
    subset_size,            \* TSP: the loop variable `subset_size`
    max_cost,               \* TSP: value of the best closed cycle
    dists,                  \* TSP: edge weights along the closed cycle
    cut_index,              \* TSP: position of the weakest edge
    start_index,            \* TSP
    end_index,              \* TSP
    niche_NT_score,         \* score mapper: the result vector
    values,                 \* score mapper: np.linspace(0, 1, n)
    enum_i,                 \* score mapper: position of enumerate()
    dataset,                \* propagator: the samples of the argument dataset
    niche_level_NTScore,    \* propagator: the argument niche_level_NTScore
    cell_level_NTScore,     \* propagator: the result vector
    data_i,                 \* propagator: position of enumerate(dataset)
    niche_to_cell_matrix,   \* propagator: the normalized, transposed weights
    niche_level_NTScore_,   \* propagator: the niche scores of one sample
    cell_level_NTScore_,    \* propagator: the cell scores of one sample
    all_niche_level_NTScore_dict,   \* propagator: niche scores by sample name
    all_cell_level_NTScore_dict,    \* propagator: cell scores by sample name
    GNN_dir,                \* the two files of the directory options.GNN_dir
    consolidate_s_array,    \* load_consolidate_data: the loading matrix read
    consolidate_out_adj_array,  \* load_consolidate_data: the connectivity read
    niche_cluster_loading,  \* get_niche_NTScore: the argument niche_cluster_loading
    NTScore_dir,            \* the files written to the directory options.NTScore_dir
    NTScore_table,          \* NTScore_table: the table of all samples
    table_i,                \* NTScore_table: position of the loop over the samples
    history,                \* the calls of the solver that have ended, with their results
    reverse,                \* plots: the flag reverse / options.reverse
    niche_cluster_score,    \* plots: the scores of the niche clusters
    nc_scores,              \* plots: the scores that are mapped to colours
    max_epochs,             \* train: the argument max_epochs
    max_patience,           \* train: the argument max_patience
    min_delta,              \* train: the argument min_delta
    min_epochs,             \* train: the argument min_epochs
    output,                 \* train: whether kwargs holds the key 'output'
    epoch,                  \* train: the loop variable, -1 before the first epoch
    train_loss,             \* train: the loss of the epoch at hand
    min_loss,               \* train: the least loss recorded
    patience,               \* train: epochs in a row without improvement
    best_params,            \* train: the parameters kept for line 71
    model_params,           \* train: the parameters of self.model
    state_dict_is_view,     \* train: whether state_dict() hands out live tensors
    saved_epochs,           \* train: the epochs written by self.save
    io_options,             \* validate_io_options: the argument io_options
    options,                \* validate_io_options: the argument options
    files,                  \* validate_io_options: the paths that are files
    printed,                \* validate_io_options: the messages given to error()
    help_printed,           \* validate_io_options: optparser.print_help() ran
    exit_status             \* validate_io_options: the argument of sys.exit

solver_vars == <<trajectory_construct, niche_adj_matrix, max_connectivity, path, perm_idx,
                 C, subset_size, max_cost, dists, cut_index, start_index, end_index>>
score_vars == <<niche_NT_score, values, enum_i>>
cell_vars == <<dataset, niche_level_NTScore, cell_level_NTScore, data_i, niche_to_cell_matrix,
               niche_level_NTScore_, cell_level_NTScore_, all_niche_level_NTScore_dict,
               all_cell_level_NTScore_dict>>
nt_vars == <<GNN_dir, consolidate_s_array, consolidate_out_adj_array, niche_cluster_loading,
             NTScore_dir, NTScore_table, table_i>>
\* the names of the functions other than the solver and the score mapper
plot_vars == <<reverse, niche_cluster_score, nc_scores>>
train_vars == <<max_epochs, max_patience, min_delta, min_epochs, output, epoch, train_loss,
                min_loss, patience, best_params, model_params, state_dict_is_view, saved_epochs>>
io_vars == <<io_options, options, files, printed, help_printed, exit_status>>
late_vars == <<train_vars, io_vars>>
other_vars == <<history, plot_vars, late_vars>>
outer_vars == <<cell_vars, nt_vars, other_vars>>
vars == <<pc, outcome, niche_trajectory_path, solver_vars, score_vars, outer_vars>>

\* the locals of both functions before their first assignment
LocalsUnset ==
    /\ max_connectivity = 0
    /\ niche_trajectory_path = Unbound
    /\ path = Unbound
    /\ perm_idx = 0
    /\ C = <<>>
    /\ subset_size = 0
    /\ max_cost = 0
    /\ dists = <<>>
    /\ cut_index = 0
    /\ start_index = 0
    /\ end_index = 0
    /\ niche_NT_score = <<>>
    /\ values = <<>>
    /\ enum_i = 0

\* the names of niche_to_cell_NTScore while it is not running
CellIdle ==
    /\ dataset = <<>>
    /\ niche_level_NTScore = <<>>
    /\ cell_level_NTScore = <<>>
    /\ data_i = 0
    /\ niche_to_cell_matrix = <<>>
    /\ niche_level_NTScore_ = <<>>
    /\ cell_level_NTScore_ = <<>>
    /\ all_niche_level_NTScore_dict = <<>>
    /\ all_cell_level_NTScore_dict = <<>>

\* the names of load_consolidate_data, get_niche_NTScore and NTScore_table
\* while none of them is running
PipelineIdle ==
    /\ GNN_dir = <<>>
    /\ consolidate_s_array = Unbound
    /\ consolidate_out_adj_array = Unbound
    /\ niche_cluster_loading = Unbound
    /\ NTScore_dir = <<>>
    /\ NTScore_table = <<>>
    /\ table_i = 0

\* the names of the functions other than the solver and the score mapper
\* while none of them is running
\* the names of BatchTrain.train while it is not running
TrainIdle ==
    /\ max_epochs = 0
    /\ max_patience = 0
    /\ min_delta = <<0, 1>>
    /\ min_epochs = 0
    /\ output = FALSE
    /\ epoch = 0 - 1
    /\ train_loss = <<0, 1>>
    /\ min_loss = <<0, 1>>
    /\ patience = 0
    /\ best_params = 0
    /\ model_params = 0
    /\ state_dict_is_view = FALSE
    /\ saved_epochs = {}

\* the names of validate_io_options while it is not running
IOIdle ==
    /\ io_options = [is_none |-> TRUE, names |-> {}]
    /\ options = <<>>
    /\ files = {}
    /\ printed = <<>>
    /\ help_printed = FALSE
    /\ exit_status = 0

LateIdle == TrainIdle /\ IOIdle

OtherIdle ==
    /\ LateIdle
    /\ history = <<>>
    /\ reverse = FALSE
    /\ niche_cluster_score = <<>>
    /\ nc_scores = <<>>
OuterIdle == CellIdle /\ PipelineIdle /\ OtherIdle

\* a call get_niche_trajectory_path(options, niche_adj_matrix)
Init ==
    /\ trajectory_construct \in Strategies
    /\ niche_adj_matrix \in ValidMatrices \cup InvalidMatrices
    /\ pc = "start"
    /\ outcome = "running"
    /\ LocalsUnset
    /\ OuterIdle

\* raise: the call ends with the exception exc and returns nothing
Raise(exc) == pc' = "done" /\ outcome' = exc

\* --------------------------------------------------------- strategy BF
\* Mutant of BFStart: the best connectivity starts at 0 instead of -inf.
BFStart_ZeroInit ==
    /\ pc = "start"
    /\ trajectory_construct = "BF"
    /\ max_connectivity' = 0
    /\ niche_trajectory_path' = <<>>
    /\ perm_idx' = 1
    /\ pc' = "bf_loop"
    /\ UNCHANGED <<outcome, trajectory_construct, niche_adj_matrix, path, C, subset_size,
                   max_cost, dists, cut_index, start_index, end_index, score_vars, outer_vars>>

\* lines 40-44
BFStart ==
    /\ pc = "start"
    /\ trajectory_construct = "BF"
    /\ max_connectivity' = NegInf
    /\ niche_trajectory_path' = <<>>
    /\ perm_idx' = 1
    /\ pc' = "bf_loop"
    /\ UNCHANGED <<outcome, trajectory_construct, niche_adj_matrix, path, C, subset_size,
                   max_cost, dists, cut_index, start_index, end_index, score_vars, outer_vars>>

\* Mutant of BFUpdate: the comparison of line 49 reads <, with the best
\* connectivity starting above every sum, so the weakest ordering is kept.
BFUpdate_Min(M, best, p) ==
    LET connectivity == PathConnectivity(M, p)
    IN  IF best[2] = <<>> \/ connectivity < best[1] THEN <<connectivity, p>> ELSE best

\* Mutant of BFUpdate: the comparison of line 49 reads >=, so the last of
\* several equally good permutations is kept.
BFUpdate_LastWins(M, best, p) ==
    LET connectivity == PathConnectivity(M, p)
    IN  IF connectivity >= best[1] THEN <<connectivity, p>> ELSE best

\* lines 46-51: the best (connectivity, path) pair after the permutation p
BFUpdate(M, best, p) ==
    LET connectivity == PathConnectivity(M, p)
    IN  IF connectivity > best[1] THEN <<connectivity, p>> ELSE best

\* lines 45-51: one iteration of the loop over the permutations
BFIteration ==
    /\ pc = "bf_loop"
    /\ perm_idx <= Len(PermutationsOfRange[MatLen(niche_adj_matrix)])
    /\ LET p == PermutationsOfRange[MatLen(niche_adj_matrix)][perm_idx]
       IN  /\ path' = p
           /\ IF ~PathInBounds(niche_adj_matrix, p)
              THEN /\ Raise("IndexError")
                   /\ UNCHANGED <<max_connectivity, niche_trajectory_path, perm_idx>>
              ELSE LET best == BFUpdate(niche_adj_matrix,
                                        <<max_connectivity, niche_trajectory_path>>, p)
                   IN  /\ max_connectivity' = best[1]
                       /\ niche_trajectory_path' = best[2]
                       /\ perm_idx' = perm_idx + 1
                       /\ UNCHANGED <<pc, outcome>>
    /\ UNCHANGED <<trajectory_construct, niche_adj_matrix, C, subset_size,
                   max_cost, dists, cut_index, start_index, end_index, score_vars, outer_vars>>

\* lines 43-51 as a whole, for a matrix on which no index is out of range:
\* the pair left by the loop after the first k permutations
RECURSIVE BFAfter(_, _)
BFAfter(M, k) ==
    IF k = 0 THEN <<NegInf, <<>>>>
    ELSE BFUpdate(M, BFAfter(M, k - 1), PermutationsOfRange[MatLen(M)][k])

\* the list returned by strategy 'BF'
BFSolve(M) == BFAfter(M, Len(PermutationsOfRange[MatLen(M)]))[2]

\* line 120 after the BF loop is exhausted
BFReturn ==
    /\ pc = "bf_loop"
    /\ perm_idx > Len(PermutationsOfRange[MatLen(niche_adj_matrix)])
    /\ pc' = "done"
    /\ outcome' = "returned"
    /\ UNCHANGED <<niche_trajectory_path, solver_vars, score_vars, outer_vars>>

\* Mutant of ReturnUnbound: an empty path is returned when neither branch is
\* taken.
ReturnUnbound_EmptyPath ==
    /\ pc = "start"
    /\ trajectory_construct \notin {"BF", "TSP"}
    /\ niche_trajectory_path' = <<>>
    /\ pc' = "done"
    /\ outcome' = "returned"
    /\ UNCHANGED <<solver_vars, score_vars, outer_vars>>

\* line 120 when neither branch of lines 40 and 53 is taken: the name
\* niche_trajectory_path was never bound
ReturnUnbound ==
    /\ pc = "start"
    /\ trajectory_construct \notin {"BF", "TSP"}
    /\ Raise("UnboundLocalError")
    /\ UNCHANGED <<niche_trajectory_path, solver_vars, score_vars, outer_vars>>

\* -------------------------------------------------------- strategy TSP
\* 1 << k
Shl(k) == 2 ^ k

\* the bit mask of a set of nodes (lines 66-68)
RECURSIVE BitsOf(_)
BitsOf(S) ==
    IF S = {} THEN 0
    ELSE LET b == CHOOSE x \in S : TRUE IN Shl(b) + BitsOf(S \ {b})

\* the elements of a set of nodes in increasing order (the order in which
\* itertools.combinations yields them)
RECURSIVE SortedSeq(_)
SortedSeq(S) ==
    IF S = {} THEN <<>>
    ELSE LET lo == CHOOSE x \in S : \A y \in S : x <= y
         IN  <<lo>> \o SortedSeq(S \ {lo})

\* itertools.combinations(range(1, n), subset_size), as a set of sets
Combinations(n, size) == {S \in SUBSET (1 .. (n - 1)) : Cardinality(S) = size}

\* Mutant of Candidates: line 76 adds the weight of the edge from node 0 to k
\* instead of the edge from the predecessor m to k.
Candidates_EdgeFromStart(M, tab, S, k) ==
    LET prev_bits == BitsOf(S \ {k})
        ms == SortedSeq(S \ {k})
    IN  [x \in 1 .. Len(ms) |->
            <<tab[<<prev_bits, ms[x]>>][1] + M[0][k],
              Append(tab[<<prev_bits, ms[x]>>][2], k)>>]

\* lines 72-76: the candidates for the entry (bits of S, k)
Candidates(M, tab, S, k) ==
    LET prev_bits == BitsOf(S \ {k})
        ms == SortedSeq(S \ {k})
    IN  [x \in 1 .. Len(ms) |->
            <<tab[<<prev_bits, ms[x]>>][1] + M[ms[x]][k],
              Append(tab[<<prev_bits, ms[x]>>][2], k)>>]

\* lines 56-61: n, the empty table and its base entries
TSPInit ==
    /\ pc = "start"
    /\ trajectory_construct = "TSP"
    /\ LET n == MatLen(niche_adj_matrix)
       IN  IF \E k \in 1 .. (n - 1) : ~InBounds(niche_adj_matrix, 0, k)
           THEN /\ Raise("IndexError")
                /\ UNCHANGED <<C, subset_size>>
           ELSE /\ C' = [key \in {<<Shl(k), k>> : k \in 1 .. (n - 1)} |->
                            <<niche_adj_matrix[0][key[2]], <<0, key[2]>>>>]
                /\ subset_size' = 2
                /\ pc' = "tsp_fill"
                /\ UNCHANGED outcome
    /\ UNCHANGED <<trajectory_construct, niche_adj_matrix, max_connectivity,
                   niche_trajectory_path, path, perm_idx, max_cost, dists, cut_index,
                   start_index, end_index, score_vars, outer_vars>>

\* lines 64-77: one iteration of the loop over subset_size; every index read
\* here is below n, and line 61 has read row 0 up to column n-1 already
TSPFill ==
    /\ pc = "tsp_fill"
    /\ subset_size < MatLen(niche_adj_matrix)
    /\ LET n == MatLen(niche_adj_matrix)
           newKeys == {<<BitsOf(S), k>> : <<S, k>> \in
                          {sk \in Combinations(n, subset_size) \X (1 .. (n - 1)) :
                              sk[2] \in sk[1]}}
           subsetOf(bits) == CHOOSE S \in Combinations(n, subset_size) : BitsOf(S) = bits
       IN  C' = [key \in DOMAIN C \cup newKeys |->
                    IF key \in DOMAIN C THEN C[key]
                    ELSE MaxTuple(Candidates(niche_adj_matrix, C, subsetOf(key[1]), key[2]))]
    /\ subset_size' = subset_size + 1
    /\ UNCHANGED <<pc, outcome, trajectory_construct, niche_adj_matrix, max_connectivity,
                   niche_trajectory_path, path, perm_idx, max_cost, dists, cut_index,
                   start_index, end_index, score_vars, outer_vars>>

\* Mutant of ClosingCandidates: the weight of the closing edge back to node 0
\* is left out of the comparison.
ClosingCandidates_NoClosingEdge(M, tab) ==
    LET n == MatLen(M)
        bits == (2 ^ n - 1) - 1
    IN  [k \in 1 .. (n - 1) |-> <<tab[<<bits, k>>][1], tab[<<bits, k>>][2]>>]

\* lines 80-84: the candidates for the closed cycle
ClosingCandidates(M, tab) ==
    LET n == MatLen(M)
        bits == (2 ^ n - 1) - 1
    IN  [k \in 1 .. (n - 1) |-> <<tab[<<bits, k>>][1] + M[k][0], tab[<<bits, k>>][2]>>]

\* Mutant of TSPClose: an empty candidate list yields an empty path instead of
\* the ValueError of max().
TSPClose_DefaultOnEmpty ==
    /\ pc = "tsp_fill"
    /\ subset_size >= MatLen(niche_adj_matrix)
    /\ LET res == ClosingCandidates(niche_adj_matrix, C)
       IN  IF res = <<>>
           THEN /\ pc' = "done"
                /\ outcome' = "returned"
                /\ niche_trajectory_path' = <<>>
                /\ UNCHANGED <<max_cost, C>>
           ELSE LET best == MaxTuple(res)
                    key == <<(2 ^ MatLen(niche_adj_matrix) - 1) - 1, best[2][Len(best[2])]>>
                IN  /\ max_cost' = best[1]
                    /\ niche_trajectory_path' = Append(best[2], 0)
                    /\ C' = [C EXCEPT ![key] = <<@[1], Append(@[2], 0)>>]
                    /\ pc' = "tsp_cut"
                    /\ UNCHANGED outcome
    /\ UNCHANGED <<trajectory_construct, niche_adj_matrix, max_connectivity, path, perm_idx,
                   subset_size, dists, cut_index, start_index, end_index, score_vars, outer_vars>>

\* lines 80-87: close the cycle.  max() of an empty list raises ValueError.
\* The list taken from the table is the table's own list object, so append(0)
\* is seen in the table entry too.
TSPClose ==
    /\ pc = "tsp_fill"
    /\ subset_size >= MatLen(niche_adj_matrix)
    /\ LET res == ClosingCandidates(niche_adj_matrix, C)
       IN  IF res = <<>>
           THEN /\ Raise("ValueError")
                /\ UNCHANGED <<max_cost, niche_trajectory_path, C>>
           ELSE LET best == MaxTuple(res)
                    key == <<(2 ^ MatLen(niche_adj_matrix) - 1) - 1, best[2][Len(best[2])]>>
                IN  /\ max_cost' = best[1]
                    /\ niche_trajectory_path' = Append(best[2], 0)
                    /\ C' = [C EXCEPT ![key] = <<@[1], Append(@[2], 0)>>]
                    /\ pc' = "tsp_cut"
                    /\ UNCHANGED outcome
    /\ UNCHANGED <<trajectory_construct, niche_adj_matrix, max_connectivity, path, perm_idx,
                   subset_size, dists, cut_index, start_index, end_index, score_vars, outer_vars>>

\* lines 90-92: the weights of the consecutive pairs of a closed path
EdgeWeights(M, p) == [i \in 1 .. (Len(p) - 1) |-> M[p[i]][p[i + 1]]]

\* Mutant of IndexOfMin: the last position of the minimum is taken.
IndexOfMin_Last(d) ==
    (CHOOSE i \in 1 .. Len(d) :
        /\ \A j \in 1 .. Len(d) : d[i] <= d[j]
        /\ \A j \in (i + 1) .. Len(d) : d[j] > d[i]) - 1

\* line 94: dists.index(min(dists)), as a Python position
IndexOfMin(d) ==
    (CHOOSE i \in 1 .. Len(d) :
        /\ \A j \in 1 .. Len(d) : d[i] <= d[j]
        /\ \A j \in 1 .. (i - 1) : d[j] > d[i]) - 1

\* lines 90-100: the weakest edge and the orientation of its end points
TSPCut ==
    /\ pc = "tsp_cut"
    /\ LET d == EdgeWeights(niche_adj_matrix, niche_trajectory_path)
           ci == IndexOfMin(d)
       IN  /\ dists' = d
           /\ cut_index' = ci
           /\ IF niche_trajectory_path[ci + 1] < niche_trajectory_path[ci + 2]
              THEN start_index' = ci /\ end_index' = ci + 1
              ELSE start_index' = ci + 1 /\ end_index' = ci
    /\ pc' = "tsp_splice"
    /\ UNCHANGED <<outcome, trajectory_construct, niche_adj_matrix, max_connectivity,
                   niche_trajectory_path, path, perm_idx, C, subset_size, max_cost,
                   score_vars, outer_vars>>

\* list.pop(i) for a Python position i
Pop(s, i) == RemoveAt(s, i + 1)

\* lines 102-118: splice the cycle into an open path, then line 120.
\* pop() and reverse() act on the list object shared with the table entry of
\* the closing terminal; lines 113 and 118 bind a new list.
TSPSplice ==
    /\ pc = "tsp_splice"
    /\ LET ntp == niche_trajectory_path
           key == <<(2 ^ MatLen(niche_adj_matrix) - 1) - 1, ntp[Len(ntp) - 1]>>
       IN  IF start_index = Len(ntp) - 1
           THEN /\ niche_trajectory_path' = Pop(ntp, start_index)
                /\ C' = [C EXCEPT ![key] = <<@[1], Pop(ntp, start_index)>>]
                /\ pc' = "done" /\ outcome' = "returned"
           ELSE IF start_index = 0
           THEN /\ niche_trajectory_path' = Reverse(Pop(ntp, start_index))
                /\ C' = [C EXCEPT ![key] = <<@[1], Reverse(Pop(ntp, start_index))>>]
                /\ pc' = "done" /\ outcome' = "returned"
           ELSE IF start_index < end_index
           THEN IF path = Unbound
                THEN /\ Raise("UnboundLocalError")
                     /\ UNCHANGED <<niche_trajectory_path, C>>
                ELSE LET popped == Pop(ntp, Len(path) - 1)
                         seg1 == Reverse(SubSeq(popped, 1, start_index + 1))
                         seg2 == Reverse(SubSeq(popped, end_index + 1, Len(popped)))
                     IN  /\ niche_trajectory_path' = seg1 \o seg2
                         /\ C' = [C EXCEPT ![key] = <<@[1], popped>>]
                         /\ pc' = "done" /\ outcome' = "returned"
           ELSE LET popped == Pop(ntp, Len(ntp) - 1)
                    seg1 == SubSeq(popped, start_index + 1, Len(popped))
                    seg2 == SubSeq(popped, 1, end_index + 1)
                IN  /\ niche_trajectory_path' = seg1 \o seg2
                    /\ C' = [C EXCEPT ![key] = <<@[1], popped>>]
                    /\ pc' = "done" /\ outcome' = "returned"
    /\ UNCHANGED <<trajectory_construct, niche_adj_matrix, max_connectivity, path, perm_idx,
                   subset_size, max_cost, dists, cut_index, start_index, end_index, score_vars, outer_vars>>

\* ------------------------------------------------------- score mapper
\* Scores are exact fractions <<numerator, denominator>> in lowest terms
\* with a positive denominator (the source holds the nearest floats).
RECURSIVE Gcd(_, _)
Gcd(a, b) == IF b = 0 THEN a ELSE Gcd(b, a % b)

\* the fraction a / b, b > 0, in lowest terms
Frac(a, b) == LET g == Gcd(a, b) IN <<a \div g, b \div g>>

FracMul(x, y) == Frac(x[1] * y[1], x[2] * y[2])
FracEq(x, y) == x[1] * y[2] = y[1] * x[2]
FracLess(x, y) == x[1] * y[2] < y[1] * x[2]
FracLeq(x, y) == x[1] * y[2] <= y[1] * x[2]

\* np.linspace(0, 1, num): arange(num) * step with step = 1 / (num - 1),
\* and the last value set to the stop value 1; for num = 1 the single value 0
\* Mutant of Step: the spacing of linspace(..., endpoint=False).
Step_NoEndpoint(num) == Frac(1, num)

Step(num) == Frac(1, num - 1)
Linspace(num) ==
    [i \in 1 .. num |->
        IF num = 1 THEN Frac(0, 1)
        ELSE IF i = num THEN Frac(1, 1)
        ELSE FracMul(Frac(i - 1, 1), Step(num))]

\* the orderings that are drawn: every permutation of 0..n-1, n <= MaxN
Orderings == UNION {Elems(PermutationsOfRange[n]) : n \in 0 .. MaxN}

\* the solver's own names while only the score mapper runs
SolverIdle ==
    /\ trajectory_construct = "BF"
    /\ niche_adj_matrix = <<>>

\* a call trajectory_path_to_NC_score(niche_trajectory_path)
InitScore ==
    /\ SolverIdle
    /\ pc = "score_start"
    /\ outcome = "running"
    /\ max_connectivity = 0
    /\ niche_trajectory_path \in Orderings
    /\ path = Unbound
    /\ perm_idx = 0
    /\ C = <<>>
    /\ subset_size = 0
    /\ max_cost = 0
    /\ dists = <<>>
    /\ cut_index = 0
    /\ start_index = 0
    /\ end_index = 0
    /\ niche_NT_score = <<>>
    /\ values = <<>>
    /\ enum_i = 0
    /\ OuterIdle

\* lines 132-133
ScoreStart ==
    /\ pc = "score_start"
    /\ niche_NT_score' = [index \in Range(Len(niche_trajectory_path)) |-> Frac(0, 1)]
    /\ values' = Linspace(Len(niche_trajectory_path))
    /\ enum_i' = 0
    /\ pc' = "score_loop"
    /\ UNCHANGED <<outcome, niche_trajectory_path, solver_vars, outer_vars>>

\* Mutant of ScoreIteration: line 137 stores at the position i instead of at
\* the node index.
ScoreIteration_ByPosition ==
    /\ pc = "score_loop"
    /\ enum_i < Len(niche_trajectory_path)
    /\ niche_NT_score' = [niche_NT_score EXCEPT ![enum_i] =
                              values[niche_trajectory_path[enum_i + 1] + 1]]
    /\ enum_i' = enum_i + 1
    /\ UNCHANGED <<pc, outcome, values, niche_trajectory_path, solver_vars, outer_vars>>

\* lines 135-137: one iteration of the loop over enumerate(niche_trajectory_path)
ScoreIteration ==
    /\ pc = "score_loop"
    /\ enum_i < Len(niche_trajectory_path)
    /\ LET index == niche_trajectory_path[enum_i + 1]
       IN  niche_NT_score' = [niche_NT_score EXCEPT ![index] = values[enum_i + 1]]
    /\ enum_i' = enum_i + 1
    /\ UNCHANGED <<pc, outcome, values, niche_trajectory_path, solver_vars, outer_vars>>

\* line 138
ScoreReturn ==
    /\ pc = "score_loop"
    /\ enum_i >= Len(niche_trajectory_path)
    /\ pc' = "score_done"
    /\ outcome' = "returned"
    /\ UNCHANGED <<niche_trajectory_path, solver_vars, score_vars, outer_vars>>

NextScore ==
    \/ ScoreStart
    \/ ScoreIteration
    \/ ScoreReturn

SpecScore == InitScore /\ [][NextScore]_vars

\* --------------------------------------------------- score propagator
\* The weights and scores of niche_to_cell_NTScore are exact fractions as
\* above.  nan, the float that 0 / 0 yields, is written <<0, 0>>; a sum, a
\* product or a quotient with a nan operand is nan.
NaN == <<0, 0>>
IsNaN(x) == x[2] = 0

\* x + y and x * y of floats
FracAdd(x, y) ==
    IF IsNaN(x) \/ IsNaN(y) THEN NaN ELSE Frac(x[1] * y[2] + y[1] * x[2], x[2] * y[2])
FracTimes(x, y) == IF IsNaN(x) \/ IsNaN(y) THEN NaN ELSE FracMul(x, y)

\* x / y of numpy for x >= 0 and y >= 0.  The divisor is the sum of a column
\* of non-negative weights, so it is 0 only when the dividend is 0 as well:
\* numpy warns, yields nan for 0 / 0 and goes on.
TrueDivide(x, y) ==
    IF IsNaN(x) \/ IsNaN(y) \/ y[1] = 0 THEN NaN ELSE Frac(x[1] * y[2], x[2] * y[1])

\* f[0] + ... + f[k-1]
RECURSIVE FracSum(_, _)
FracSum(f, k) == IF k <= 0 THEN Frac(0, 1) ELSE FracAdd(FracSum(f, k - 1), f[k - 1])

\* shape[0] of a vector; shape[0] and shape[1] of a matrix
VecLen(v) == Cardinality(DOMAIN v)
Rows(W) == MatLen(W)
Cols(W) == IF MatLen(W) = 0 THEN 0 ELSE Cardinality(DOMAIN W[0])

\* Mutant of ColumnSums: sum() without an axis, the total of all weights.
ColumnSums_Total(W) ==
    LET rowSum == [n \in Range(Rows(W)) |-> FracSum(W[n], Cols(W))]
    IN  [c \in Range(Cols(W)) |-> FracSum(rowSum, Rows(W))]

\* line 185: niche_weight_matrix.sum(axis=0), one sum per column (cell)
ColumnSums(W) ==
    [c \in Range(Cols(W)) |-> FracSum([n \in Range(Rows(W)) |-> W[n][c]], Rows(W))]

\* Mutant of NormalizeTranspose: the weights are transposed without being
\* divided by the column sums.
NormalizeTranspose_Raw(W) ==
    [c \in Range(Cols(W)) |-> [n \in Range(Rows(W)) |-> W[n][c]]]

\* lines 183-186: (niche_weight_matrix / niche_weight_matrix.sum(axis=0)).T,
\* row c of the result holding column c of the weights over its sum
NormalizeTranspose(W) ==
    LET sums == ColumnSums(W)
    IN  [c \in Range(Cols(W)) |-> [n \in Range(Rows(W)) |-> TrueDivide(W[n][c], sums[c])]]

Min2(a, b) == IF a < b THEN a ELSE b

\* Mutant of MatMul: only the first term of every sum of products is taken.
MatMul_FirstTerm(P, v) ==
    [c \in DOMAIN P |->
        FracSum([n \in DOMAIN v |-> FracTimes(P[c][n], v[n])], Min2(1, VecLen(v)))]

\* line 190: P @ v for a matrix P whose rows are as long as v
MatMul(P, v) ==
    [c \in DOMAIN P |-> FracSum([n \in DOMAIN v |-> FracTimes(P[c][n], v[n])], VecLen(v))]

\* line 181: the bounds of slice_ for the sample smp at position i
SliceStart(i, smp) == i * smp.x_rows
SliceStop(i, smp) == i * smp.x_rows + smp.mask_sum

\* v[start:stop]: numpy clips both bounds to the length of v
Slice(v, start, stop) ==
    LET lo == Min2(start, VecLen(v))
        hi == Min2(stop, VecLen(v))
    IN  [k \in Range(hi - lo) |-> v[lo + k]]

\* Mutant of SliceAssign: the values are stored from position 0 on.
SliceAssign_FromZero(v, start, w) ==
    [k \in DOMAIN v |-> IF k < VecLen(w) THEN w[k] ELSE v[k]]

\* v[start:stop] = w for w as long as the clipped slice
SliceAssign(v, start, w) ==
    [k \in DOMAIN v |-> IF k >= start /\ k < start + VecLen(w) THEN w[k - start] ELSE v[k]]

\* d[key] = value for a dict d
DictSet(d, key, value) ==
    [k \in DOMAIN d \cup {key} |-> IF k = key THEN value ELSE d[k]]

\* the shapes of the weights a cell (a column) may have: no niche at all, its
\* own niche only, every niche alike, its own niche stronger than the others,
\* and weights that grow with the niche index
ColumnKinds == {"none", "self", "all", "mixed", "ramp"}

ColumnOf(N, c, kind) ==
    [n \in Range(N) |->
        CASE kind = "none" -> 0
          [] kind = "self" -> IF n = c THEN 1 ELSE 0
          [] kind = "all" -> 1
          [] kind = "mixed" -> IF n = c THEN MaxW ELSE 1
          [] OTHER -> n % (MaxW + 1)]

\* the N x N weight matrix (rows: niches, columns: cells) whose column c has
\* the shape kinds[c]
WeightMatrixOf(N, kinds) ==
    [n \in Range(N) |-> [c \in Range(N) |-> Frac(ColumnOf(N, c, kinds[c])[n], 1)]]

\* every combination of column shapes, and the same shape in every column
FullWeightMatrices(N) == {WeightMatrixOf(N, kinds) : kinds \in [Range(N) -> ColumnKinds]}
UniformWeightMatrices(N) ==
    {WeightMatrixOf(N, [c \in Range(N) |-> kind]) : kind \in ColumnKinds}

\* the sample at position k: data.name, data.x.shape[0] (every sample is
\* padded to the same number of rows), data.mask.sum() and the matrix loaded
\* from rel_params['Data'][k]['NicheWeightMatrix']
SampleOf(k, N, W) ==
    [name |-> <<"sample", k>>, x_rows |-> MaxCells, mask_sum |-> N, NicheWeightMatrix |-> W]

\* datasets of one sample with every combination of column shapes
SingleSampleDatasets ==
    UNION {{<<SampleOf(0, N, W)>> : W \in FullWeightMatrices(N)} : N \in 1 .. MaxCells}

\* datasets of several samples, each with one column shape
UniformChoices == UNION {{<<N, W>> : W \in UniformWeightMatrices(N)} : N \in 1 .. MaxCells}
MultiSampleDatasets ==
    UNION {{[k \in 1 .. ns |-> SampleOf(k - 1, pick[k][1], pick[k][2])]
              : pick \in [1 .. ns -> UniformChoices]}
           : ns \in 2 .. MaxSamples}

\* the niche-level score vectors of length L that are drawn: rising, falling,
\* constant and alternating between 0 and 1
ScoreVectors(L) ==
    {[k \in Range(L) |-> Frac(k, L)],
     [k \in Range(L) |-> Frac(L - k, L)],
     [k \in Range(L) |-> Frac(1, 2)],
     [k \in Range(L) |-> Frac(k % 2, 1)]}

\* a matrix given by the list of its rows
FromRows(rows) ==
    [i \in Range(Len(rows)) |-> [j \in Range(Len(rows[i + 1])) |-> rows[i + 1][j + 1]]]

\* the weights 1, 0 / 0, 1 / 0.5, 0.5 with one row per cell, and the same
\* weights with one row per niche
ExampleWeightsByCell ==
    FromRows(<< <<Frac(1, 1), Frac(0, 1)>>,
                <<Frac(0, 1), Frac(1, 1)>>,
                <<Frac(1, 2), Frac(1, 2)>> >>)
ExampleWeightsByNiche ==
    FromRows(<< <<Frac(1, 1), Frac(0, 1), Frac(1, 2)>>,
                <<Frac(0, 1), Frac(1, 1), Frac(1, 2)>> >>)

\* the niche scores 0.2, 0.8
ExampleScores == [k \in Range(2) |-> IF k = 0 THEN Frac(1, 5) ELSE Frac(4, 5)]

\* one sample with two niche scores and either form of the example weights
ExampleInputs ==
    {[dataset |-> <<[name |-> <<"sample", 0>>, x_rows |-> 2, mask_sum |-> 2,
                     NicheWeightMatrix |-> W]>>,
      niche_level_NTScore |-> ExampleScores]
       : W \in {ExampleWeightsByCell, ExampleWeightsByNiche}}

\* the arguments that are drawn: niche_level_NTScore has one entry per row
\* of every sample
CellInputs ==
    UNION {{[dataset |-> ds, niche_level_NTScore |-> v]
              : v \in ScoreVectors(Len(ds) * MaxCells)}
           : ds \in SingleSampleDatasets \cup MultiSampleDatasets}
    \cup ExampleInputs

\* a call niche_to_cell_NTScore(dataset, rel_params, niche_level_NTScore)
InitCell ==
    /\ SolverIdle
    /\ pc = "cell_start"
    /\ outcome = "running"
    /\ LocalsUnset
    /\ \E inp \in CellInputs :
          /\ dataset = inp.dataset
          /\ niche_level_NTScore = inp.niche_level_NTScore
    /\ cell_level_NTScore = <<>>
    /\ data_i = 0
    /\ niche_to_cell_matrix = <<>>
    /\ niche_level_NTScore_ = <<>>
    /\ cell_level_NTScore_ = <<>>
    /\ all_niche_level_NTScore_dict = <<>>
    /\ all_cell_level_NTScore_dict = <<>>
    /\ PipelineIdle
    /\ OtherIdle

\* lines 171-176
CellStart ==
    /\ pc = "cell_start"
    /\ cell_level_NTScore' = [k \in Range(VecLen(niche_level_NTScore)) |-> Frac(0, 1)]
    /\ all_niche_level_NTScore_dict' = <<>>
    /\ all_cell_level_NTScore_dict' = <<>>
    /\ data_i' = 0
    /\ pc' = "cell_loop"
    /\ UNCHANGED <<outcome, niche_trajectory_path, solver_vars, score_vars, nt_vars, other_vars, dataset,
                   niche_level_NTScore, niche_to_cell_matrix, niche_level_NTScore_,
                   cell_level_NTScore_>>

\* lines 178-190: the projection of one sample.  The product of line 190
\* raises ValueError when the rows of the projection matrix and the slice of
\* niche scores differ in length.
CellProject ==
    /\ pc = "cell_loop"
    /\ data_i < Len(dataset)
    /\ LET data == dataset[data_i + 1]
           niche_weight_matrix == data.NicheWeightMatrix
           projection == NormalizeTranspose(niche_weight_matrix)
           scores == Slice(niche_level_NTScore, SliceStart(data_i, data), SliceStop(data_i, data))
       IN  IF Rows(niche_weight_matrix) # VecLen(scores)
           THEN /\ Raise("ValueError")
                /\ UNCHANGED <<niche_to_cell_matrix, niche_level_NTScore_, cell_level_NTScore_>>
           ELSE /\ niche_to_cell_matrix' = projection
                /\ niche_level_NTScore_' = scores
                /\ cell_level_NTScore_' = MatMul(projection, scores)
                /\ pc' = "cell_store"
                /\ UNCHANGED outcome
    /\ UNCHANGED <<niche_trajectory_path, solver_vars, score_vars, nt_vars, other_vars, dataset, niche_level_NTScore,
                   cell_level_NTScore, data_i, all_niche_level_NTScore_dict,
                   all_cell_level_NTScore_dict>>

\* lines 191-194: store the cell scores of the sample in its slice and record
\* both vectors under the sample's name.  The assignment of line 191 takes a
\* vector as long as the slice, repeats a single value over the slice, and
\* raises ValueError for any other length.
CellStore ==
    /\ pc = "cell_store"
    /\ LET data == dataset[data_i + 1]
           start == Min2(SliceStart(data_i, data), VecLen(cell_level_NTScore))
           target == Slice(cell_level_NTScore, SliceStart(data_i, data), SliceStop(data_i, data))
           stored == IF VecLen(cell_level_NTScore_) = 1
                     THEN [k \in DOMAIN target |-> cell_level_NTScore_[0]]
                     ELSE cell_level_NTScore_
       IN  IF VecLen(stored) # VecLen(target)
           THEN /\ Raise("ValueError")
                /\ UNCHANGED <<cell_level_NTScore, data_i, all_niche_level_NTScore_dict,
                               all_cell_level_NTScore_dict>>
           ELSE /\ cell_level_NTScore' = SliceAssign(cell_level_NTScore, start, stored)
                /\ all_niche_level_NTScore_dict' =
                      DictSet(all_niche_level_NTScore_dict, data.name, niche_level_NTScore_)
                /\ all_cell_level_NTScore_dict' =
                      DictSet(all_cell_level_NTScore_dict, data.name, cell_level_NTScore_)
                /\ data_i' = data_i + 1
                /\ pc' = "cell_loop"
                /\ UNCHANGED outcome
    /\ UNCHANGED <<niche_trajectory_path, solver_vars, score_vars, nt_vars, other_vars, dataset, niche_level_NTScore,
                   niche_to_cell_matrix, niche_level_NTScore_, cell_level_NTScore_>>

\* line 196
CellReturn ==
    /\ pc = "cell_loop"
    /\ data_i >= Len(dataset)
    /\ pc' = "cell_done"
    /\ outcome' = "returned"
    /\ UNCHANGED <<niche_trajectory_path, solver_vars, score_vars, outer_vars>>

NextCell ==
    \/ CellStart
    \/ CellProject
    \/ CellStore
    \/ CellReturn

SpecCell == InitCell /\ [][NextCell]_vars

\* ------------------------------------------------------ specification
Next ==
    \/ BFStart
    \/ BFIteration
    \/ BFReturn
    \/ TSPInit
    \/ TSPFill
    \/ TSPClose
    \/ TSPCut
    \/ TSPSplice
    \/ ReturnUnbound

Spec == Init /\ [][Next]_vars

\* M[i][j] = M[j][i] for a square matrix M
IsSymmetric(M) == IsSquare(M) /\ \A i \in DOMAIN M : \A j \in DOMAIN M : M[i][j] = M[j][i]

\* the calls on matrices inside the precondition that are symmetric as well,
\* as the connectivity matrices are in practice
InitSymmetric ==
    /\ Init
    /\ IsValid(niche_adj_matrix)
    /\ IsSymmetric(niche_adj_matrix)

SpecSymmetric == InitSymmetric /\ [][Next]_vars

\* ------------------------------------------------------ repeated calls
\* Calls of get_niche_trajectory_path one after the other in one process.

\* the 3 x 3 matrices with a single edge of weight MaxW: from node 0 to node
\* 1, from node 0 to node 2, and from node 2 to node 0
RepeatMatrices ==
    {MatrixOf(3, [pr \in OffPairs(3) |-> IF pr = e THEN MaxW ELSE 0], 0)
       : e \in {<<0, 1>>, <<0, 2>>, <<2, 0>>}}

\* the arguments of the calls that are drawn
RepeatInputs ==
    {[trajectory_construct |-> s, niche_adj_matrix |-> M]
       : s \in Strategies, M \in RepeatMatrices}

\* the first call
InitRepeat ==
    /\ \E inp \in RepeatInputs :
          /\ trajectory_construct = inp.trajectory_construct
          /\ niche_adj_matrix = inp.niche_adj_matrix
    /\ pc = "start"
    /\ outcome = "running"
    /\ LocalsUnset
    /\ OuterIdle

\* what a call that has ended leaves to its caller: the exception or the
\* list returned, and the cost that the strategy has found for it
ResultOf ==
    [trajectory_construct |-> trajectory_construct,
     niche_adj_matrix |-> niche_adj_matrix,
     outcome |-> outcome,
     ordering |-> IF outcome = "returned" THEN niche_trajectory_path ELSE Unbound,
     cost |-> IF outcome # "returned" THEN 0
              ELSE IF trajectory_construct = "BF" THEN max_connectivity
              ELSE max_cost]

\* Mutant of Invoke: the name `path` keeps the value that the call before
\* has left in it, as a module-level name would.
Invoke_PathKept ==
    /\ pc = "done"
    /\ Len(history) < MaxCalls
    /\ history' = Append(history, ResultOf)
    /\ IF Len(history) + 1 < MaxCalls
       THEN /\ \E inp \in RepeatInputs :
                  /\ trajectory_construct' = inp.trajectory_construct
                  /\ niche_adj_matrix' = inp.niche_adj_matrix
            /\ pc' = "start"
            /\ outcome' = "running"
            /\ max_connectivity' = 0
            /\ niche_trajectory_path' = Unbound
            /\ path' = path
            /\ perm_idx' = 0
            /\ C' = <<>>
            /\ subset_size' = 0
            /\ max_cost' = 0
            /\ dists' = <<>>
            /\ cut_index' = 0
            /\ start_index' = 0
            /\ end_index' = 0
       ELSE /\ pc' = "calls_done"
            /\ UNCHANGED <<outcome, niche_trajectory_path, solver_vars>>
    /\ UNCHANGED <<score_vars, cell_vars, nt_vars, plot_vars, late_vars>>

\* lines 33 and 120: the call at hand has ended and the next one begins.
\* Every name of the function is local to the call, so the next call starts
\* with none of them bound, whatever the call before has left.
Invoke ==
    /\ pc = "done"
    /\ Len(history) < MaxCalls
    /\ history' = Append(history, ResultOf)
    /\ IF Len(history) + 1 < MaxCalls
       THEN /\ \E inp \in RepeatInputs :
                  /\ trajectory_construct' = inp.trajectory_construct
                  /\ niche_adj_matrix' = inp.niche_adj_matrix
            /\ pc' = "start"
            /\ outcome' = "running"
            /\ max_connectivity' = 0
            /\ niche_trajectory_path' = Unbound
            /\ path' = Unbound
            /\ perm_idx' = 0
            /\ C' = <<>>
            /\ subset_size' = 0
            /\ max_cost' = 0
            /\ dists' = <<>>
            /\ cut_index' = 0
            /\ start_index' = 0
            /\ end_index' = 0
       ELSE /\ pc' = "calls_done"
            /\ UNCHANGED <<outcome, niche_trajectory_path, solver_vars>>
    /\ UNCHANGED <<score_vars, cell_vars, nt_vars, plot_vars, late_vars>>

NextRepeat ==
    \/ Next
    \/ Invoke

SpecRepeat == InitRepeat /\ [][NextRepeat]_vars

\* ------------------------------------------- calls on two diagonals
\* A call of the solver, followed by a call with the same strategy on the
\* matrix with the same off-diagonal entries and another diagonal.

\* the matrices with a zero diagonal over 2 and over 3 nodes, every other
\* entry 0 or MaxW
ZeroDiagonalMatrices ==
    UNION {{MatrixOf(n, off, 0) : off \in [OffPairs(n) -> {0, MaxW}]} : n \in 2 .. 3}

\* the matrix M with the diagonal entries d
WithDiagonal(M, d) ==
    [i \in DOMAIN M |-> [j \in DOMAIN M[i] |-> IF i = j THEN d[i] ELSE M[i][j]]]

\* the first call
InitDiagonal ==
    /\ trajectory_construct \in Strategies
    /\ niche_adj_matrix \in ZeroDiagonalMatrices
    /\ pc = "start"
    /\ outcome = "running"
    /\ LocalsUnset
    /\ OuterIdle

\* lines 33 and 120: the first call has ended; the second call takes the
\* same strategy and a diagonal that is not zero everywhere
InvokeOtherDiagonal ==
    /\ pc = "done"
    /\ history = <<>>
    /\ history' = <<ResultOf>>
    /\ \E d \in [DOMAIN niche_adj_matrix -> 0 .. MaxW] :
          /\ \E i \in DOMAIN d : d[i] # 0
          /\ niche_adj_matrix' = WithDiagonal(niche_adj_matrix, d)
    /\ pc' = "start"
    /\ outcome' = "running"
    /\ max_connectivity' = 0
    /\ niche_trajectory_path' = Unbound
    /\ path' = Unbound
    /\ perm_idx' = 0
    /\ C' = <<>>
    /\ subset_size' = 0
    /\ max_cost' = 0
    /\ dists' = <<>>
    /\ cut_index' = 0
    /\ start_index' = 0
    /\ end_index' = 0
    /\ UNCHANGED <<trajectory_construct, score_vars, cell_vars, nt_vars, plot_vars, late_vars>>

NextDiagonal ==
    \/ Next
    \/ InvokeOtherDiagonal

SpecDiagonal == InitDiagonal /\ [][NextDiagonal]_vars

\* ------------------------------------------------------------ pipeline
\* load_consolidate_data, get_niche_NTScore, niche_to_cell_NTScore and
\* NTScore_table, run one after the other on the files of options.GNN_dir.

\* a file that does not exist, and one that holds a matrix
AbsentFile == [exists |-> FALSE, content |-> <<>>]
FileOf(content) == [exists |-> TRUE, content |-> content]

\* the connectivity 0, 5, 1 / 5, 0, 1 / 1, 1, 0 of three niche clusters
ExampleConnectivity ==
    FromRows(<< <<0, 5, 1>>, <<5, 0, 1>>, <<1, 1, 0>> >>)

\* the contents of consolidate_out_adj.csv.gz that are drawn: symmetric
\* matrices with a zero diagonal, and the example
LoadableMatrices ==
    {M \in SmallMatrices \cup TwoValuedMatrices : IsSymmetric(M) /\ M[0][0] = 0}
    \cup {ExampleConnectivity}

\* the contents of consolidate_s.csv.gz for rows niches and n clusters: every
\* niche in one cluster, or every niche half in a cluster and half in the next
LoadingOf(rows, n, kind) ==
    [k \in Range(rows) |-> [j \in Range(n) |->
        IF kind = "hard"
        THEN (IF j = k % n THEN Frac(1, 1) ELSE Frac(0, 1))
        ELSE FracAdd(IF j = k % n THEN Frac(1, 2) ELSE Frac(0, 1),
                     IF j = (k + 1) % n THEN Frac(1, 2) ELSE Frac(0, 1))]]

\* the datasets that are drawn: every sample full, every cell with its own
\* niche stronger than the others
PipelineDatasets ==
    {[k \in 1 .. ns |->
         SampleOf(k - 1, MaxCells, WeightMatrixOf(MaxCells, [c \in Range(MaxCells) |-> "mixed"]))]
       : ns \in 1 .. MaxSamples}

\* the directory and the dataset of one run: each of the two files is there
\* or not
PipelineInputs ==
    {[dataset |-> ds,
      GNN_dir |-> [consolidate_s |-> IF present[1]
                                      THEN FileOf(LoadingOf(Len(ds) * MaxCells, MatLen(M), kind))
                                      ELSE AbsentFile,
                   consolidate_out_adj |-> IF present[2] THEN FileOf(M) ELSE AbsentFile]]
       : ds \in PipelineDatasets, M \in LoadableMatrices, kind \in {"hard", "soft"},
         present \in BOOLEAN \X BOOLEAN}

\* the names of the pipeline before load_consolidate_data has run
PipelineUnset ==
    /\ consolidate_s_array = Unbound
    /\ consolidate_out_adj_array = Unbound
    /\ niche_cluster_loading = Unbound
    /\ NTScore_dir = <<>>
    /\ NTScore_table = <<>>
    /\ table_i = 0

\* a run on the directory options.GNN_dir, with nothing written yet to
\* options.NTScore_dir
InitPipeline ==
    /\ trajectory_construct \in Strategies
    /\ niche_adj_matrix = <<>>
    /\ pc = "load_start"
    /\ outcome = "running"
    /\ LocalsUnset
    /\ \E inp \in PipelineInputs :
          /\ dataset = inp.dataset
          /\ GNN_dir = inp.GNN_dir
    /\ niche_level_NTScore = <<>>
    /\ cell_level_NTScore = <<>>
    /\ data_i = 0
    /\ niche_to_cell_matrix = <<>>
    /\ niche_level_NTScore_ = <<>>
    /\ cell_level_NTScore_ = <<>>
    /\ all_niche_level_NTScore_dict = <<>>
    /\ all_cell_level_NTScore_dict = <<>>
    /\ PipelineUnset
    /\ OtherIdle

\* the names of the solver apart from its argument niche_adj_matrix
solver_locals == <<trajectory_construct, max_connectivity, path, perm_idx, C, subset_size,
                   max_cost, dists, cut_index, start_index, end_index>>

\* lines 24-25: do both files exist
LoadCheck ==
    /\ pc = "load_start"
    /\ IF ~GNN_dir.consolidate_s.exists \/ ~GNN_dir.consolidate_out_adj.exists
       THEN pc' = "load_error"
       ELSE pc' = "load_s"
    /\ UNCHANGED <<outcome, niche_trajectory_path, solver_vars, score_vars, outer_vars>>

\* line 26: error() of ONTraC.log writes the message; the function is not part
\* of the sources at hand, so it either ends the program or returns
LoadError ==
    /\ pc = "load_error"
    /\ \/ Raise("SystemExit")
       \/ pc' = "load_s" /\ UNCHANGED outcome
    /\ UNCHANGED <<niche_trajectory_path, solver_vars, score_vars, outer_vars>>

\* Mutant of LoadS: a file that does not exist is read as an empty matrix.
LoadS_EmptyOnMissing ==
    /\ pc = "load_s"
    /\ consolidate_s_array' = GNN_dir.consolidate_s.content
    /\ pc' = "load_adj"
    /\ UNCHANGED outcome
    /\ UNCHANGED <<niche_trajectory_path, solver_vars, score_vars, cell_vars, other_vars, GNN_dir,
                   consolidate_out_adj_array, niche_cluster_loading, NTScore_dir,
                   NTScore_table, table_i>>

\* line 27: np.loadtxt raises FileNotFoundError for a file that does not exist
LoadS ==
    /\ pc = "load_s"
    /\ IF GNN_dir.consolidate_s.exists
       THEN /\ consolidate_s_array' = GNN_dir.consolidate_s.content
            /\ pc' = "load_adj"
            /\ UNCHANGED outcome
       ELSE /\ Raise("FileNotFoundError")
            /\ UNCHANGED consolidate_s_array
    /\ UNCHANGED <<niche_trajectory_path, solver_vars, score_vars, cell_vars, other_vars, GNN_dir,
                   consolidate_out_adj_array, niche_cluster_loading, NTScore_dir,
                   NTScore_table, table_i>>

\* lines 28-30: the second file, and the return of both matrices
LoadAdj ==
    /\ pc = "load_adj"
    /\ IF GNN_dir.consolidate_out_adj.exists
       THEN /\ consolidate_out_adj_array' = GNN_dir.consolidate_out_adj.content
            /\ pc' = "loaded"
            /\ outcome' = "returned"
       ELSE /\ Raise("FileNotFoundError")
            /\ UNCHANGED consolidate_out_adj_array
    /\ UNCHANGED <<niche_trajectory_path, solver_vars, score_vars, cell_vars, other_vars, GNN_dir,
                   consolidate_s_array, niche_cluster_loading, NTScore_dir, NTScore_table,
                   table_i>>

\* the caller passes the two loaded matrices to get_niche_NTScore, which
\* calls the solver (lines 141-152)
MainCallNTScore ==
    /\ pc = "loaded"
    /\ niche_cluster_loading' = consolidate_s_array
    /\ niche_adj_matrix' = consolidate_out_adj_array
    /\ pc' = "start"
    /\ outcome' = "running"
    /\ UNCHANGED <<niche_trajectory_path, solver_locals, score_vars, cell_vars, other_vars, GNN_dir,
                   consolidate_s_array, consolidate_out_adj_array, NTScore_dir, NTScore_table,
                   table_i>>

\* line 154: the path returned by the solver goes to the score mapper
NTScoreMapper ==
    /\ pc = "done"
    /\ outcome = "returned"
    /\ pc' = "score_start"
    /\ outcome' = "running"
    /\ UNCHANGED <<niche_trajectory_path, solver_vars, score_vars, outer_vars>>

\* lines 155-156: niche_cluster_loading @ niche_cluster_score
NTScoreReturn ==
    /\ pc = "score_done"
    /\ niche_level_NTScore' = MatMul(niche_cluster_loading, niche_NT_score)
    /\ pc' = "ntscore_done"
    /\ UNCHANGED <<outcome, niche_trajectory_path, solver_vars, score_vars, dataset,
                   cell_level_NTScore, data_i, niche_to_cell_matrix, niche_level_NTScore_,
                   cell_level_NTScore_, all_niche_level_NTScore_dict,
                   all_cell_level_NTScore_dict, nt_vars, other_vars>>

\* the caller passes the niche-level scores to niche_to_cell_NTScore
MainCallProject ==
    /\ pc = "ntscore_done"
    /\ pc' = "cell_start"
    /\ outcome' = "running"
    /\ UNCHANGED <<niche_trajectory_path, solver_vars, score_vars, outer_vars>>

\* the caller passes the two dicts to NTScore_table
MainCallTable ==
    /\ pc = "cell_done"
    /\ pc' = "table_start"
    /\ outcome' = "running"
    /\ UNCHANGED <<niche_trajectory_path, solver_vars, score_vars, outer_vars>>

\* the file name of the table of one sample, and of the table of all samples
SampleTableFile(name) == <<name, "_NTScore.csv.gz">>
AllTableFile == <<<<>>, "NTScore.csv.gz">>

\* lines 210-211
TableStart ==
    /\ pc = "table_start"
    /\ NTScore_table' = <<>>
    /\ table_i' = 0
    /\ pc' = "table_loop"
    /\ UNCHANGED <<outcome, niche_trajectory_path, solver_vars, score_vars, cell_vars, other_vars, GNN_dir,
                   consolidate_s_array, consolidate_out_adj_array, niche_cluster_loading,
                   NTScore_dir>>

\* lines 212-218: the table of one sample, one row per cell with the columns
\* Niche_NTScore and Cell_NTScore, written to its file and appended to the
\* table of all samples
TableSample ==
    /\ pc = "table_loop"
    /\ table_i < Len(dataset)
    /\ LET name == dataset[table_i + 1].name
           niche == all_niche_level_NTScore_dict[name]
           cell == all_cell_level_NTScore_dict[name]
           coordinates_df == [k \in 1 .. VecLen(niche) |-> <<niche[k - 1], cell[k - 1]>>]
       IN  /\ NTScore_dir' = DictSet(NTScore_dir, SampleTableFile(name), coordinates_df)
           /\ NTScore_table' = NTScore_table \o coordinates_df
    /\ table_i' = table_i + 1
    /\ UNCHANGED <<pc, outcome, niche_trajectory_path, solver_vars, score_vars, cell_vars,
                   other_vars, GNN_dir, consolidate_s_array, consolidate_out_adj_array,
                   niche_cluster_loading>>

\* line 220: the table of all samples
TableWrite ==
    /\ pc = "table_loop"
    /\ table_i >= Len(dataset)
    /\ NTScore_dir' = DictSet(NTScore_dir, AllTableFile, NTScore_table)
    /\ pc' = "table_done"
    /\ outcome' = "returned"
    /\ UNCHANGED <<niche_trajectory_path, solver_vars, score_vars, cell_vars, other_vars, GNN_dir,
                   consolidate_s_array, consolidate_out_adj_array, niche_cluster_loading,
                   NTScore_table, table_i>>

NextPipeline ==
    \/ LoadCheck
    \/ LoadError
    \/ LoadS
    \/ LoadAdj
    \/ MainCallNTScore
    \/ Next
    \/ NTScoreMapper
    \/ NextScore
    \/ NTScoreReturn
    \/ MainCallProject
    \/ NextCell
    \/ MainCallTable
    \/ TableStart
    \/ TableSample
    \/ TableWrite

SpecPipeline == InitPipeline /\ [][NextPipeline]_vars

\* ---------------------------------------------------- claims: helpers
\* p lists every index 0..n-1 exactly once
IsPermutation(p, n) == Len(p) = n /\ Elems(p) = Range(n)

\* every arrangement of 0..n-1, defined without the solver's enumeration
AllOrderings(n) == {q \in [1 .. n -> Range(n)] : \A i, j \in 1 .. n : i # j => q[i] # q[j]}

\* the weight of q as an open path, and as a closed cycle
OpenCost(M, q) == SumUpTo([i \in 1 .. (Len(q) - 1) |-> M[q[i]][q[i + 1]]], Len(q) - 1)
ClosedCost(M, q) == OpenCost(M, q) + (IF Len(q) = 0 THEN 0 ELSE M[q[Len(q)]][q[1]])

\* a and b are neighbours in the list p
Adjacent(p, a, b) ==
    \E i \in 1 .. (Len(p) - 1) : {p[i], p[i + 1]} = {a, b}

Finished == pc = "done"
Returned == pc = "done" /\ outcome = "returned"

\* ------------------------------------------------------------- claims
\* C1: with strategy 'TSP', for every square non-negative matrix with n >= 2
\* the call returns a list of length n that holds every index 0..n-1 exactly
\* once, without failing.
C1_TSPReturnsPermutation ==
    (Finished /\ trajectory_construct = "TSP" /\ IsValid(niche_adj_matrix))
        => /\ outcome = "returned"
           /\ IsPermutation(niche_trajectory_path, MatLen(niche_adj_matrix))

\* C2: with strategy 'BF', for every square non-negative matrix with n >= 2
\* the call returns a list of length n that holds every index 0..n-1 exactly
\* once.
C2_BFReturnsPermutation ==
    (Finished /\ trajectory_construct = "BF" /\ IsValid(niche_adj_matrix))
        => /\ outcome = "returned"
           /\ IsPermutation(niche_trajectory_path, MatLen(niche_adj_matrix))

\* C2 witness: a 'BF' call on a valid matrix has returned an ordering other
\* than the first permutation.
C2_Witness ==
    /\ Returned
    /\ trajectory_construct = "BF"
    /\ IsValid(niche_adj_matrix)
    /\ MatLen(niche_adj_matrix) >= 3
    /\ niche_trajectory_path # RangeSeq(MatLen(niche_adj_matrix))

\* C3: the ordering returned by 'BF' has maximum open-path cost: no
\* arrangement of 0..n-1 has a greater sum over its consecutive pairs.
C3_BFMaximal ==
    (Returned /\ trajectory_construct = "BF")
        => \A q \in AllOrderings(MatLen(niche_adj_matrix)) :
              OpenCost(niche_adj_matrix, q) <= OpenCost(niche_adj_matrix, niche_trajectory_path)

\* C3 witness: 'BF' has returned an ordering that is strictly better than
\* some arrangement and whose closed cycle is not the heaviest one.
C3_Witness ==
    /\ Returned
    /\ trajectory_construct = "BF"
    /\ IsValid(niche_adj_matrix)
    /\ \E q \in AllOrderings(MatLen(niche_adj_matrix)) :
          /\ OpenCost(niche_adj_matrix, q) < OpenCost(niche_adj_matrix, niche_trajectory_path)
          /\ ClosedCost(niche_adj_matrix, q) > ClosedCost(niche_adj_matrix, niche_trajectory_path)

\* C4: with strategy 'TSP' the closed path built before the cut starts and
\* ends at node 0, visits every other node exactly once, and its weight over
\* all n consecutive pairs is max_cost, the maximum over all Hamiltonian
\* cycles of the matrix.
C4_ClosedCycleMaximal ==
    pc = "tsp_cut" =>
        LET n == MatLen(niche_adj_matrix)
            p == niche_trajectory_path
        IN  /\ Len(p) = n + 1
            /\ p[1] = 0
            /\ p[n + 1] = 0
            /\ IsPermutation(SubSeq(p, 1, n), n)
            /\ OpenCost(niche_adj_matrix, p) = max_cost
            /\ \A q \in AllOrderings(n) : ClosedCost(niche_adj_matrix, q) <= max_cost

\* C4 witness: a closed cycle over at least 3 nodes has been built that is
\* strictly heavier than some other Hamiltonian cycle of an asymmetric matrix.
C4_Witness ==
    /\ pc = "tsp_cut"
    /\ IsValid(niche_adj_matrix)
    /\ ~IsSymmetric(niche_adj_matrix)
    /\ MatLen(niche_adj_matrix) >= 3
    /\ \E q \in AllOrderings(MatLen(niche_adj_matrix)) :
          ClosedCost(niche_adj_matrix, q) < max_cost

\* C5: for every closed cycle produced by the dynamic program, the splice ends
\* with an open path that holds every node exactly once and in which the two
\* end points of the weakest edge are not neighbours (for n = 2 the cycle's
\* two edges join the same two nodes, so only the first part is asked).
C5_CutCorrect ==
    [][(pc = "tsp_splice" /\ IsValid(niche_adj_matrix)) =>
          LET n == MatLen(niche_adj_matrix)
              a == niche_trajectory_path[cut_index + 1]
              b == niche_trajectory_path[cut_index + 2]
          IN  /\ outcome' = "returned"
              /\ IsPermutation(niche_trajectory_path', n)
              /\ n >= 3 => ~Adjacent(niche_trajectory_path', a, b)]_vars

Abs(x) == IF x < 0 THEN 0 - x ELSE x

\* C6: for every valid matrix (n <= 8) 'TSP' returns a path, and its total
\* connectivity and that of the path returned by 'BF' differ by at most the
\* weight of the edge that 'TSP' cut out of its cycle.
C6_AgreeWithinCutEdge ==
    (Finished /\ trajectory_construct = "TSP" /\ IsValid(niche_adj_matrix)
       /\ MatLen(niche_adj_matrix) <= 8)
        => /\ outcome = "returned"
           /\ Abs(OpenCost(niche_adj_matrix, BFSolve(niche_adj_matrix))
                  - OpenCost(niche_adj_matrix, niche_trajectory_path))
                <= dists[cut_index + 1]

\* the pair {a, b} is the one dominant edge of the symmetric matrix M: its
\* weight is strictly greater than every other off-diagonal weight
IsDominantEdge(M, a, b) ==
    /\ a # b
    /\ \A i \in DOMAIN M : \A j \in DOMAIN M :
          (i # j /\ {i, j} # {a, b}) => M[i][j] < M[a][b]

\* C7 as stated: for a symmetric matrix with one dominant edge, its two end
\* points are neighbours in the path returned by 'BF' and in the path
\* returned by 'TSP'.
C7_DominantEdgeKept ==
    (Returned /\ trajectory_construct \in {"BF", "TSP"}
       /\ IsValid(niche_adj_matrix) /\ IsSymmetric(niche_adj_matrix))
        => \A a, b \in DOMAIN niche_adj_matrix :
              IsDominantEdge(niche_adj_matrix, a, b) => Adjacent(niche_trajectory_path, a, b)

\* C7 as amended: the two end points of the dominant edge are neighbours in
\* the path returned by 'BF' when n <= 4 and in the path returned by 'TSP'
\* when n <= 3.
C7_DominantEdgeKeptSmall ==
    (Returned /\ IsValid(niche_adj_matrix) /\ IsSymmetric(niche_adj_matrix)
       /\ \/ trajectory_construct = "BF" /\ MatLen(niche_adj_matrix) <= 4
          \/ trajectory_construct = "TSP" /\ MatLen(niche_adj_matrix) <= 3)
        => \A a, b \in DOMAIN niche_adj_matrix :
              IsDominantEdge(niche_adj_matrix, a, b) => Adjacent(niche_trajectory_path, a, b)

\* C7 witness: 'BF' has returned for a symmetric 4 x 4 matrix whose dominant
\* edge does not join the first two nodes and that has other edges as well.
C7_Witness ==
    /\ Returned
    /\ trajectory_construct = "BF"
    /\ IsValid(niche_adj_matrix) /\ IsSymmetric(niche_adj_matrix)
    /\ MatLen(niche_adj_matrix) = 4
    /\ IsDominantEdge(niche_adj_matrix, 2, 3)
    /\ niche_adj_matrix[0][1] > 0
    /\ niche_adj_matrix[0][2] > 0
    /\ Adjacent(niche_trajectory_path, 2, 3)

\* C8 as stated: for every matrix that is not square, has a negative entry
\* or has fewer than 2 nodes, the solver fails and returns no ordering, under
\* both strategies.
C8_InvalidInputFails ==
    (Finished /\ trajectory_construct \in {"BF", "TSP"} /\ ~IsValid(niche_adj_matrix))
        => outcome # "returned"

\* the matrix has r >= 2 rows and fewer columns than rows
FewerColumns(M) == MatLen(M) >= 2 /\ \A i \in DOMAIN M : Cardinality(DOMAIN M[i]) < MatLen(M)
\* the matrix has more columns than rows
MoreColumns(M) == MatLen(M) >= 1 /\ \A i \in DOMAIN M : Cardinality(DOMAIN M[i]) > MatLen(M)

\* C8 as amended: the solver validates nothing.  It fails only where the
\* computation itself breaks: 'TSP' with ValueError on every matrix with
\* fewer than 2 nodes, and either strategy with IndexError on every matrix
\* with fewer columns than rows.  'BF' returns a permutation of the row
\* indices for a matrix that is square with a negative entry, that has fewer
\* than 2 nodes, or that has more columns than rows.
C8_NoValidation ==
    LET M == niche_adj_matrix
    IN  (Finished /\ trajectory_construct \in {"BF", "TSP"} /\ ~IsValid(M)) =>
          /\ (trajectory_construct = "TSP" /\ MatLen(M) < 2) => outcome = "ValueError"
          /\ FewerColumns(M) => outcome = "IndexError"
          /\ (trajectory_construct = "BF"
                /\ (IsSquare(M) \/ MoreColumns(M))) =>
                   /\ outcome = "returned"
                   /\ IsPermutation(niche_trajectory_path, MatLen(M))

\* C8 witness: 'BF' has returned an ordering for a square matrix with a
\* negative off-diagonal entry.
C8_Witness ==
    /\ Returned
    /\ trajectory_construct = "BF"
    /\ IsSquare(niche_adj_matrix)
    /\ MatLen(niche_adj_matrix) = 2
    /\ niche_adj_matrix[0][1] < 0
    /\ IsPermutation(niche_trajectory_path, 2)

\* C9: for every ordering of length n >= 2 the score mapper returns a vector
\* of length n with score[ordering[i]] = i / (n - 1) for every position i;
\* the first node of the ordering scores 0 and the last one 1.
C9_ScoreIsLinspace ==
    (pc = "score_done" /\ Len(niche_trajectory_path) >= 2) =>
        LET n == Len(niche_trajectory_path)
            ordering == niche_trajectory_path
        IN  /\ outcome = "returned"
            /\ DOMAIN niche_NT_score = Range(n)
            /\ \A i \in Range(n) : FracEq(niche_NT_score[ordering[i + 1]], <<i, n - 1>>)
            /\ niche_NT_score[ordering[1]] = <<0, 1>>
            /\ niche_NT_score[ordering[n]] = <<1, 1>>

\* C9 witness: the mapper has returned for an ordering of at least 3 nodes
\* that does not start at node 0, and an inner node holds a proper fraction.
C9_Witness ==
    /\ pc = "score_done"
    /\ Len(niche_trajectory_path) >= 3
    /\ niche_trajectory_path[1] # 0
    /\ niche_NT_score[niche_trajectory_path[2]][2] > 1

\* C10: for every permutation given as ordering the scores are pairwise
\* distinct, lie in [0, 1] and increase strictly along the ordering.
C10_ScoreStrictlyIncreasing ==
    pc = "score_done" =>
        LET n == Len(niche_trajectory_path)
            ordering == niche_trajectory_path
        IN  /\ \A a, b \in Range(n) : a # b => ~FracEq(niche_NT_score[a], niche_NT_score[b])
            /\ \A a \in Range(n) :
                  FracLeq(<<0, 1>>, niche_NT_score[a]) /\ FracLeq(niche_NT_score[a], <<1, 1>>)
            /\ \A i, j \in 1 .. n :
                  i < j => FracLess(niche_NT_score[ordering[i]], niche_NT_score[ordering[j]])

\* C10 witness: the mapper has returned for an ordering in which a node with
\* a greater index comes before a node with a smaller one, and scores less.
C10_Witness ==
    /\ pc = "score_done"
    /\ Len(niche_trajectory_path) >= 3
    /\ \E i, j \in 1 .. Len(niche_trajectory_path) :
          /\ i < j
          /\ niche_trajectory_path[i] > niche_trajectory_path[j]
          /\ FracLess(niche_NT_score[niche_trajectory_path[i]],
                      niche_NT_score[niche_trajectory_path[j]])

\* C14: with strategy 'BF' the permutation returned is, among those of
\* maximum cost, the first in the lexicographic order in which
\* itertools.permutations(range(n)) yields them; and during the loop a
\* permutation replaces the current best only when its cost is strictly
\* greater than the best cost so far.
C14_BFFirstMaximalWins ==
    /\ [](Returned /\ trajectory_construct = "BF" =>
            \A q \in AllOrderings(MatLen(niche_adj_matrix)) :
                /\ OpenCost(niche_adj_matrix, q) <= OpenCost(niche_adj_matrix, niche_trajectory_path)
                /\ OpenCost(niche_adj_matrix, q) = OpenCost(niche_adj_matrix, niche_trajectory_path)
                      => ~LexLess(q, niche_trajectory_path))
    /\ [][(pc = "bf_loop" /\ pc' = "bf_loop"
             /\ niche_trajectory_path' # niche_trajectory_path) =>
                /\ niche_trajectory_path' = path'
                /\ OpenCost(niche_adj_matrix, path') > max_connectivity
                /\ max_connectivity' = OpenCost(niche_adj_matrix, path')]_vars

\* C14 witness: 'BF' has returned an ordering that is not the first
\* permutation, while a later permutation has the same, maximum, cost.
C14_Witness ==
    /\ Returned
    /\ trajectory_construct = "BF"
    /\ IsValid(niche_adj_matrix)
    /\ niche_trajectory_path # RangeSeq(MatLen(niche_adj_matrix))
    /\ \E q \in AllOrderings(MatLen(niche_adj_matrix)) :
          /\ LexLess(niche_trajectory_path, q)
          /\ OpenCost(niche_adj_matrix, q) = OpenCost(niche_adj_matrix, niche_trajectory_path)

\* C15: two calls of the solver on the same matrix with the same strategy
\* end in the same way, with the same ordering and the same cost, whatever
\* calls were made before and between them; and every call begins with none
\* of the function's names bound, so nothing of an earlier call is seen.
C15_SolverDeterministic ==
    /\ \A i, j \in 1 .. Len(history) :
          (/\ history[i].trajectory_construct = history[j].trajectory_construct
           /\ history[i].niche_adj_matrix = history[j].niche_adj_matrix)
              => history[i] = history[j]
    /\ pc = "start" => LocalsUnset

\* C15 witness: 'TSP' has returned an ordering for a matrix, 'BF' has then
\* returned another ordering, and 'TSP' has returned for the first matrix
\* again.
C15_Witness ==
    /\ pc = "calls_done"
    /\ Len(history) = 3
    /\ history[1].trajectory_construct = "TSP"
    /\ history[2].trajectory_construct = "BF"
    /\ history[2].outcome = "returned"
    /\ history[2].ordering # RangeSeq(3)
    /\ history[3].trajectory_construct = "TSP"
    /\ history[3].niche_adj_matrix = history[1].niche_adj_matrix
    /\ history[3].outcome = "returned"
    /\ history[3].ordering # history[2].ordering

\* the matrices A and B have the same shape and the same off-diagonal entries
SameOffDiagonal(A, B) ==
    /\ DOMAIN A = DOMAIN B
    /\ \A i \in DOMAIN A :
          /\ DOMAIN A[i] = DOMAIN B[i]
          /\ \A j \in DOMAIN A[i] : i # j => A[i][j] = B[i][j]

\* C16: for two matrices that are equal off the diagonal and differ on it,
\* the solver ends in the same way and returns the same ordering, for 'BF'
\* and for 'TSP'.
C16_DiagonalIgnored ==
    (pc = "done" /\ Len(history) = 1 /\ trajectory_construct \in {"BF", "TSP"}) =>
        /\ history[1].trajectory_construct = trajectory_construct
        /\ SameOffDiagonal(history[1].niche_adj_matrix, niche_adj_matrix)
        /\ history[1].niche_adj_matrix # niche_adj_matrix
        /\ history[1].outcome = outcome
        /\ outcome = "returned" => history[1].ordering = niche_trajectory_path

\* C16 witness: 'TSP' has returned the same ordering, other than 0, 1, 2, for
\* a matrix with a zero diagonal and for the matrix with three different
\* diagonal entries, two of them greater than every other entry of their row.
C16_Witness ==
    /\ pc = "done"
    /\ Len(history) = 1
    /\ trajectory_construct = "TSP"
    /\ outcome = "returned"
    /\ MatLen(niche_adj_matrix) = 3
    /\ niche_adj_matrix[0][0] = 1
    /\ niche_adj_matrix[1][1] = MaxW
    /\ niche_adj_matrix[2][2] = 0
    /\ niche_adj_matrix[0][1] = 0
    /\ niche_adj_matrix[0][2] = 0
    /\ niche_adj_matrix[1][2] = MaxW
    /\ niche_trajectory_path # RangeSeq(3)
    /\ history[1].ordering = niche_trajectory_path

\* C17: with strategy 'TSP' and n = 2, for every non-negative 2 x 2 matrix
\* the call returns the ordering 0, 1, whichever of the two edges of the
\* cycle 0, 1, 0 is the weakest one, and when both are equal.
C17_TwoNodesTSP ==
    (Finished /\ trajectory_construct = "TSP" /\ IsValid(niche_adj_matrix)
       /\ MatLen(niche_adj_matrix) = 2)
        => /\ outcome = "returned"
           /\ niche_trajectory_path = <<0, 1>>
           /\ cut_index = (IF niche_adj_matrix[0][1] <= niche_adj_matrix[1][0] THEN 0 ELSE 1)

\* C17 witness: 'TSP' has returned 0, 1 for a 2 x 2 matrix whose second
\* cycle edge, from node 1 back to node 0, is the weakest and was cut.
C17_Witness ==
    /\ Returned
    /\ trajectory_construct = "TSP"
    /\ IsValid(niche_adj_matrix)
    /\ MatLen(niche_adj_matrix) = 2
    /\ niche_adj_matrix[1][0] < niche_adj_matrix[0][1]
    /\ cut_index = 1
    /\ niche_trajectory_path = <<0, 1>>

\* ------------------------------------------- claims: score propagator
\* the cell (column) c of the weights W has at least one positive weight
HasPositiveWeight(W, c) == \E n \in Range(Rows(W)) : FracLess(Frac(0, 1), W[n][c])

IsNonNegativeWeights(W) ==
    \A n \in Range(Rows(W)) : \A c \in Range(Cols(W)) : FracLeq(Frac(0, 1), W[n][c])

\* lo <= x <= hi; every comparison with nan is false
FracWithin(x, lo, hi) == ~IsNaN(x) /\ FracLeq(lo, x) /\ FracLeq(x, hi)

\* the least and the greatest entry of a non-empty vector
MinOf(v) == CHOOSE x \in {v[k] : k \in DOMAIN v} : \A k \in DOMAIN v : FracLeq(x, v[k])
MaxOf(v) == CHOOSE x \in {v[k] : k \in DOMAIN v} : \A k \in DOMAIN v : FracLeq(v[k], x)

\* the entries of niche_level_NTScore that belong to the sample at position i
NicheSlice(i) ==
    Slice(niche_level_NTScore, SliceStart(i, dataset[i + 1]), SliceStop(i, dataset[i + 1]))

\* C11: for every sample, every cell-level score lies between the minimum and
\* the maximum of the niche-level scores of that sample's slice, when the
\* weights are non-negative and the cell has at least one positive weight:
\* both the scores of the sample at hand and the entries of the vector that
\* is returned.
C11_CellScoreWithinNicheRange ==
    /\ pc = "cell_store" =>
          LET W == dataset[data_i + 1].NicheWeightMatrix
          IN  IsNonNegativeWeights(W) =>
                \A c \in DOMAIN cell_level_NTScore_ :
                    HasPositiveWeight(W, c) =>
                        FracWithin(cell_level_NTScore_[c],
                                   MinOf(NicheSlice(data_i)), MaxOf(NicheSlice(data_i)))
    /\ pc = "cell_done" =>
          \A i \in Range(Len(dataset)) :
              LET W == dataset[i + 1].NicheWeightMatrix
              IN  IsNonNegativeWeights(W) =>
                    \A c \in Range(dataset[i + 1].mask_sum) :
                        HasPositiveWeight(W, c) =>
                            FracWithin(cell_level_NTScore[SliceStart(i, dataset[i + 1]) + c],
                                       MinOf(NicheSlice(i)), MaxOf(NicheSlice(i)))

\* C11 witness: the call has returned, and a cell with two unequal positive
\* weights has a score strictly between the least and the greatest niche
\* score of its sample.
C11_Witness ==
    /\ pc = "cell_done"
    /\ \E i \in Range(Len(dataset)) :
          LET W == dataset[i + 1].NicheWeightMatrix
              x == cell_level_NTScore[SliceStart(i, dataset[i + 1]) + 1]
          IN  /\ dataset[i + 1].mask_sum >= 2
              /\ FracLess(Frac(0, 1), W[0][1])
              /\ FracLess(W[0][1], W[1][1])
              /\ FracLess(MinOf(NicheSlice(i)), x)
              /\ FracLess(x, MaxOf(NicheSlice(i)))

\* C12: after the weights are normalized and transposed, the projection
\* matrix has one row per cell, and the row of every cell to which some niche
\* contributes a positive weight sums to 1 over the niches.
C12_ProjectionRowsSumToOne ==
    pc = "cell_store" =>
        LET W == dataset[data_i + 1].NicheWeightMatrix
        IN  /\ DOMAIN niche_to_cell_matrix = Range(Cols(W))
            /\ \A c \in DOMAIN niche_to_cell_matrix :
                  HasPositiveWeight(W, c) =>
                      FracSum(niche_to_cell_matrix[c], Rows(W)) = Frac(1, 1)

\* C12 witness: a projection matrix has a row with two unequal positive
\* entries, for a cell whose weights do not sum to 1 before the division.
C12_Witness ==
    /\ pc = "cell_store"
    /\ LET W == dataset[data_i + 1].NicheWeightMatrix
       IN  \E c \in DOMAIN niche_to_cell_matrix :
              /\ Rows(W) >= 2
              /\ ~FracEq(ColumnSums(W)[c], Frac(1, 1))
              /\ FracLess(Frac(0, 1), niche_to_cell_matrix[c][0])
              /\ FracLess(niche_to_cell_matrix[c][0], niche_to_cell_matrix[c][1])

\* ---------------------------------------------------- claims: pipeline
\* one of the two files of options.GNN_dir does not exist
FileMissing == ~GNN_dir.consolidate_s.exists \/ ~GNN_dir.consolidate_out_adj.exists

\* C13: when consolidate_s.csv.gz or consolidate_out_adj.csv.gz is absent,
\* load_consolidate_data fails before any computation starts: the run never
\* leaves the function other than by an exception, the two matrices are never
\* returned or passed on, no trajectory and no score is computed, and no
\* table, of a sample or of all samples, is written.
C13_MissingFileFailsFast ==
    FileMissing =>
        /\ pc \in {"load_start", "load_error", "load_s", "load_adj", "done"}
        /\ outcome # "returned"
        /\ pc = "done" => outcome \in {"SystemExit", "FileNotFoundError"}
        /\ consolidate_s_array = Unbound \/ consolidate_out_adj_array = Unbound
        /\ niche_cluster_loading = Unbound
        /\ niche_adj_matrix = <<>>
        /\ niche_trajectory_path = Unbound
        /\ niche_NT_score = <<>>
        /\ niche_level_NTScore = <<>>
        /\ NTScore_table = <<>>
        /\ NTScore_dir = <<>>

\* C13 witness: the loading file is there, the connectivity file is not; the
\* first file has been read and the call has ended with FileNotFoundError at
\* the second one.
C13_Witness ==
    /\ pc = "done"
    /\ outcome = "FileNotFoundError"
    /\ GNN_dir.consolidate_s.exists
    /\ ~GNN_dir.consolidate_out_adj.exists
    /\ consolidate_s_array # Unbound
    /\ NTScore_dir = <<>>

\* ------------------------------------------------- niche cluster plots
\* x - y for fractions x >= y
FracSub(x, y) == Frac(x[1] * y[2] - y[1] * x[2], x[2] * y[2])

\* Mutant of OneMinus: the scores are left as they are.
OneMinus_Same(v) == v

\* 1 - v, element by element
OneMinus(v) == [k \in DOMAIN v |-> FracSub(Frac(1, 1), v[k])]

\* the score vector the score mapper yields for an ordering
ScoresOfOrdering(o) ==
    [k \in Range(Len(o)) |->
        Linspace(Len(o))[CHOOSE i \in 1 .. Len(o) : o[i] = k]]

\* the score vectors that are drawn: the results of the score mapper, and
\* vectors with equal scores
ClusterScores ==
    {ScoresOfOrdering(o) : o \in Orderings}
        \cup UNION {ScoreVectors(L) : L \in 1 .. (MaxN - 1)}

\* a call of one of the two plot functions
InitPlot ==
    /\ SolverIdle
    /\ LocalsUnset
    /\ CellIdle
    /\ PipelineIdle
    /\ LateIdle
    /\ history = <<>>
    /\ pc \in {"plot_connectivity", "plot_proportion"}
    /\ outcome = "running"
    /\ reverse \in BOOLEAN
    /\ niche_cluster_score \in ClusterScores
    /\ nc_scores = <<>>

\* _plot_niche_cluster_connectivity, line 47
PlotNicheClusterConnectivity ==
    /\ pc = "plot_connectivity"
    /\ nc_scores' = IF reverse THEN OneMinus(niche_cluster_score) ELSE niche_cluster_score
    /\ pc' = "plot_done"
    /\ outcome' = "returned"
    /\ UNCHANGED <<niche_trajectory_path, solver_vars, score_vars, cell_vars, nt_vars,
                   late_vars, history, reverse, niche_cluster_score>>

\* plot_cluster_proportion, line 144
PlotClusterProportion ==
    /\ pc = "plot_proportion"
    /\ nc_scores' = IF reverse THEN OneMinus(niche_cluster_score) ELSE niche_cluster_score
    /\ pc' = "plot_done"
    /\ outcome' = "returned"
    /\ UNCHANGED <<niche_trajectory_path, solver_vars, score_vars, cell_vars, nt_vars,
                   late_vars, history, reverse, niche_cluster_score>>

NextPlot == PlotNicheClusterConnectivity \/ PlotClusterProportion

SpecPlot == InitPlot /\ [][NextPlot]_vars

C19_WorkedExample ==
    (trajectory_construct = "BF" /\ niche_adj_matrix = ExampleConnectivity)
        => /\ pc = "done"
               => /\ outcome = "returned"
                  /\ niche_trajectory_path \in {<<0, 1, 2>>, <<1, 0, 2>>}
                  /\ max_connectivity = 6
                  /\ PathConnectivity(niche_adj_matrix, niche_trajectory_path) = 6
                  /\ Len(PermutationsOfRange[3]) = 6
                  /\ \A p \in Elems(PermutationsOfRange[3]) :
                         PathConnectivity(niche_adj_matrix, p) <= 6
           /\ pc = "score_done"
               => /\ outcome = "returned"
                  /\ niche_trajectory_path = <<0, 1, 2>>
                  /\ niche_NT_score = [k \in Range(3) |-> Frac(k, 2)]

\* C19 witness: the score mapper has returned 0, 1/2, 1 for the ordering
\* 0, 1, 2 that 'BF' found on the matrix of the example.
C19_Witness ==
    /\ pc = "score_done"
    /\ trajectory_construct = "BF"
    /\ niche_adj_matrix = ExampleConnectivity
    /\ consolidate_out_adj_array = ExampleConnectivity
    /\ max_connectivity = 6
    /\ niche_trajectory_path = <<0, 1, 2>>
    /\ niche_NT_score = [k \in Range(3) |-> Frac(k, 2)]

\* the cell scores 0.2, 0.8, 0.5 of the example
ExampleCellScores ==
    [k \in Range(3) |-> IF k = 0 THEN Frac(1, 5) ELSE IF k = 1 THEN Frac(4, 5) ELSE Frac(1, 2)]

\* the call is the one of the example with the weight matrix W, and the
\* projection of its only sample has been attempted
ExampleProjected(W) ==
    /\ Len(dataset) = 1
    /\ dataset[1].NicheWeightMatrix = W
    /\ niche_level_NTScore = ExampleScores
    /\ pc \in {"cell_store", "done", "cell_done"}

\* C20 as stated: for the weights 1, 0 / 0, 1 / 0.5, 0.5 (3 cells in rows,
\* 2 niches in columns) and the niche scores 0.2, 0.8, normalizing,
\* transposing and multiplying as niche_to_cell_NTScore does yields the cell
\* scores 0.2, 0.8, 0.5.
C20_ExampleAsStated ==
    ExampleProjected(ExampleWeightsByCell) => cell_level_NTScore_ = ExampleCellScores

\* C20 as amended: for the same weights given with one row per niche and one
\* column per cell, 1, 0, 0.5 / 0, 1, 0.5, and the niche scores 0.2, 0.8,
\* lines 184-190 yield the projection matrix 1, 0 / 0, 1 / 0.5, 0.5 and the
\* cell scores 0.2, 0.8, 0.5; the call then fails at line 191, where the 3
\* cell scores do not fit the slice of 2 entries.
C20_ExampleByNiche ==
    ExampleProjected(ExampleWeightsByNiche)
        => /\ niche_to_cell_matrix = ExampleWeightsByCell
           /\ niche_level_NTScore_ = ExampleScores
           /\ cell_level_NTScore_ = ExampleCellScores
           /\ pc # "cell_done"
           /\ pc = "done" => outcome = "ValueError"

\* C20 witness: line 190 has produced 0.2, 0.8, 0.5 from the weights with
\* one row per niche.
C20_Witness ==
    /\ pc = "cell_store"
    /\ dataset[1].NicheWeightMatrix = ExampleWeightsByNiche
    /\ niche_level_NTScore = ExampleScores
    /\ cell_level_NTScore_ = ExampleCellScores

\* ------------------------------------------------ claims: termination
\* A call is one thread of a Python program: whenever it has a next step it
\* takes it.
SpecLive == Init /\ [][Next]_vars /\ WF_vars(Next)

\* C21: once invoked on a valid matrix under 'BF' or 'TSP', the solver runs
\* to completion: every loop is finite and the call eventually ends with an
\* ordering.
C21_RunsToCompletion ==
    (pc = "start" /\ trajectory_construct \in {"BF", "TSP"} /\ IsValid(niche_adj_matrix))
        ~> (Returned /\ IsPermutation(niche_trajectory_path, MatLen(niche_adj_matrix)))

\* ------------------------------------------------- claims: the TSP cut
\* C22: in the 'TSP' strategy the edge chosen for the cut is a minimum-weight
\* edge of the closed cycle, the minimum being taken over all n consecutive
\* pairs, the closing edge back to node 0 included; among several edges of
\* minimum weight the earliest along the cycle is chosen.
C22_CutIsEarliestMinimum ==
    pc = "tsp_splice" =>
        LET M == niche_adj_matrix
            p == niche_trajectory_path
            n == MatLen(M)
            w(i) == M[p[i]][p[i + 1]]
        IN  /\ Len(p) = n + 1
            /\ p[n + 1] = 0
            /\ Len(dists) = n
            /\ \A i \in 1 .. n : dists[i] = w(i)
            /\ cut_index \in 0 .. (n - 1)
            /\ \A i \in 1 .. n : w(cut_index + 1) <= w(i)
            /\ \A i \in 1 .. cut_index : w(i) > w(cut_index + 1)

\* C22 witness: the edge chosen is neither the first nor the last of the
\* cycle, and a later edge, the closing edge, has the same minimum weight.
C22_Witness ==
    /\ pc = "tsp_splice"
    /\ MatLen(niche_adj_matrix) >= 3
    /\ cut_index >= 1
    /\ cut_index < MatLen(niche_adj_matrix) - 1
    /\ dists[MatLen(niche_adj_matrix)] = dists[cut_index + 1]
    /\ dists[1] > dists[cut_index + 1]

\* the undirected pairs joined by the consecutive elements of the list p
PairsOf(p) == {{p[i], p[i + 1]} : i \in 1 .. (Len(p) - 1)}

\* the undirected pairs of the list p other than the pair at Python position k
PairsExcept(p, k) == {{p[i], p[i + 1]} : i \in (1 .. (Len(p) - 1)) \ {k + 1}}

\* C23: in each splicing case of the 'TSP' cut (the weakest edge is the first
\* edge of the cycle, the last one, or an interior one in either orientation
\* of its end points) the result is one list of the n nodes whose n-1
\* consecutive pairs are, as undirected pairs, the n-1 edges of the cycle
\* other than the cut edge; for a symmetric matrix its connectivity is the
\* cycle weight minus the weight of the weakest edge.
C23_SpliceKeepsOtherEdges ==
    [][(pc = "tsp_splice" /\ IsValid(niche_adj_matrix)) =>
          LET n == MatLen(niche_adj_matrix)
          IN  /\ outcome' = "returned"
              /\ IsPermutation(niche_trajectory_path', n)
              /\ PairsOf(niche_trajectory_path')
                     = PairsExcept(niche_trajectory_path, cut_index)
              /\ IsSymmetric(niche_adj_matrix)
                     => OpenCost(niche_adj_matrix, niche_trajectory_path')
                            = max_cost - dists[cut_index + 1]]_vars

\* ------------------------------------------ claims: the TSP table
\* the set of nodes whose bits are set in the mask bits
NodesOf(bits) == {b \in 0 .. (MaxN + 1) : (bits \div (2 ^ b)) % 2 = 1}

\* every path that starts at node 0, visits the nodes of S once each and ends
\* at k, defined without the solver's enumeration
PathsThrough(S, k) ==
    LET mid == SortedSeq(S \ {k})
    IN  {<<0>> \o [i \in 1 .. Len(mid) |-> mid[q[i] + 1]] \o <<k>> : q \in AllOrderings(Len(mid))}

\* the entry stored under key holds a path that starts at node 0, visits
\* exactly the nodes of the key's subset once each and ends at the key's
\* terminal; its value is that path's weight and the maximum weight over all
\* such paths; the entry of a one-node subset is matrix[0][k] with path 0, k
EntryHolds(M, tab, key) ==
    LET S == NodesOf(key[1])
        k == key[2]
        value == tab[key][1]
        stored == tab[key][2]
    IN  /\ k \in S
        /\ S \subseteq 1 .. (MatLen(M) - 1)
        /\ Len(stored) = Cardinality(S) + 1
        /\ stored[1] = 0
        /\ stored[Len(stored)] = k
        /\ Elems(stored) = S \cup {0}
        /\ value = OpenCost(M, stored)
        /\ \A r \in PathsThrough(S, k) : OpenCost(M, r) <= value
        /\ S = {k} => (value = M[0][k] /\ stored = <<0, k>>)

\* C24 as stated: in the 'TSP' strategy every stored entry of the table for a
\* subset S of 1..n-1 and a terminal k in S holds a path that starts at node
\* 0, visits exactly the nodes of S once each and ends at k, with its weight
\* as the value, which is the maximum over all such paths; the entries for
\* S = {k} hold matrix[0][k] and the path 0, k.
C24_TableInvariantAlways ==
    (trajectory_construct = "TSP" /\ IsValid(niche_adj_matrix))
        => \A key \in DOMAIN C : EntryHolds(niche_adj_matrix, C, key)

\* C24 as amended: the same holds of every stored entry from the base entries
\* of line 61 until the table is last read at line 84, and the entries stored
\* are those of all subsets smaller than subset_size.
C24_TableInvariant ==
    (pc = "tsp_fill" /\ IsValid(niche_adj_matrix)) =>
        LET n == MatLen(niche_adj_matrix)
        IN  /\ DOMAIN C = {<<BitsOf(S), k>> : <<S, k>> \in
                              {sk \in (SUBSET (1 .. (n - 1))) \X (1 .. (n - 1)) :
                                  sk[2] \in sk[1] /\ Cardinality(sk[1]) < subset_size}}
            /\ \A key \in DOMAIN C : EntryHolds(niche_adj_matrix, C, key)

\* C24 witness: the table holds an entry for a subset of three nodes whose
\* path is strictly heavier than another path through the same subset to the
\* same terminal, and whose predecessor is not the first candidate.
C24_Witness ==
    /\ pc = "tsp_fill"
    /\ IsValid(niche_adj_matrix)
    /\ \E key \in DOMAIN C :
          LET S == NodesOf(key[1])
              stored == C[key][2]
          IN  /\ Cardinality(S) = 3
              /\ \E r \in PathsThrough(S, key[2]) :
                     OpenCost(niche_adj_matrix, r) < C[key][1]
              /\ stored[Len(stored) - 1] # SortedSeq(S \ {key[2]})[1]

\* ------------------------------------- claims: samples are independent
\* the positions i*m .. i*m + mask.sum() - 1 of the sample at position i,
\* m being the sample's number of rows
OwnSlice(i) ==
    LET smp == dataset[i + 1]
    IN  {k \in DOMAIN cell_level_NTScore :
            i * smp.x_rows <= k /\ k < i * smp.x_rows + smp.mask_sum}

\* the niche scores at the positions of the sample at position i
OwnNicheScores(i) ==
    LET smp == dataset[i + 1]
    IN  [k \in Range(Cardinality(OwnSlice(i))) |-> niche_level_NTScore[i * smp.x_rows + k]]

\* C25: samples are projected independently: the step that stores the scores
\* of sample i changes only the entries of cell_level_NTScore inside that
\* sample's own slice; the slices of different samples do not overlap;
\* entries outside the slices of the samples stored so far are 0; and the
\* niche-level slice and the cell-level result of every sample stored, which
\* is computed from that sample's weights and slice alone, are recorded under
\* the sample's name.
C25_SamplesIndependent ==
    /\ [](pc \in {"cell_loop", "cell_store", "cell_done"} =>
            /\ \A i, j \in Range(Len(dataset)) : i # j => OwnSlice(i) \cap OwnSlice(j) = {}
            /\ \A k \in DOMAIN cell_level_NTScore :
                  (\A i \in Range(data_i) : k \notin OwnSlice(i))
                      => cell_level_NTScore[k] = Frac(0, 1)
            /\ DOMAIN all_niche_level_NTScore_dict = {dataset[i + 1].name : i \in Range(data_i)}
            /\ DOMAIN all_cell_level_NTScore_dict = {dataset[i + 1].name : i \in Range(data_i)}
            /\ \A i \in Range(data_i) :
                  LET smp == dataset[i + 1]
                      result == MatMul(NormalizeTranspose(smp.NicheWeightMatrix), OwnNicheScores(i))
                  IN  /\ all_niche_level_NTScore_dict[smp.name] = OwnNicheScores(i)
                      /\ all_cell_level_NTScore_dict[smp.name] = result
                      /\ \A k \in OwnSlice(i) :
                            cell_level_NTScore[k] = result[k - i * smp.x_rows])
    /\ [][pc = "cell_store" =>
            /\ DOMAIN cell_level_NTScore' = DOMAIN cell_level_NTScore
            /\ \A k \in DOMAIN cell_level_NTScore :
                  k \notin OwnSlice(data_i) => cell_level_NTScore'[k] = cell_level_NTScore[k]]_vars

\* C25 witness: two samples have been stored; the first has fewer cells than
\* rows, so that an entry between the two slices is still 0, and both slices
\* hold a score other than 0.
C25_Witness ==
    /\ pc = "cell_done"
    /\ Len(dataset) = 2
    /\ dataset[1].mask_sum < dataset[1].x_rows
    /\ cell_level_NTScore[0] # Frac(0, 1)
    /\ cell_level_NTScore[dataset[1].mask_sum] = Frac(0, 1)
    /\ cell_level_NTScore[dataset[2].x_rows] # Frac(0, 1)
    /\ DOMAIN all_cell_level_NTScore_dict = {dataset[1].name, dataset[2].name}

\* ------------------------------------------ claims: ties in the table
\* C26: among the paths of maximal value the dynamic program of 'TSP' keeps
\* the lexicographically greatest one, for the predecessors of every table
\* entry as well as for the closing terminals, because candidates are
\* compared as (value, path) pairs; the cycle chosen is the one that the
\* matrix alone determines in this way.
C26_TiesKeepGreatestPath ==
    /\ (pc = "tsp_fill" /\ IsValid(niche_adj_matrix)) =>
          \A key \in DOMAIN C :
              \A r \in PathsThrough(NodesOf(key[1]), key[2]) :
                  OpenCost(niche_adj_matrix, r) = C[key][1] => ~LexLess(C[key][2], r)
    /\ (pc = "tsp_cut" /\ IsValid(niche_adj_matrix)) =>
          LET n == MatLen(niche_adj_matrix)
              cycle == SubSeq(niche_trajectory_path, 1, n)
          IN  \A q \in AllOrderings(n) :
                  (q[1] = 0 /\ ClosedCost(niche_adj_matrix, q) = max_cost) => ~LexLess(cycle, q)

\* C26 witness: a cycle has been chosen although another cycle from node 0
\* has the same weight, and its closing terminal is not the first of the
\* closing candidates of maximal value.
C26_Witness ==
    /\ pc = "tsp_cut"
    /\ IsValid(niche_adj_matrix)
    /\ MatLen(niche_adj_matrix) >= 4
    /\ LET n == MatLen(niche_adj_matrix)
           cycle == SubSeq(niche_trajectory_path, 1, n)
           res == ClosingCandidates(niche_adj_matrix,
                                    [C EXCEPT ![<<(2 ^ n - 1) - 1, cycle[n]>>] = <<@[1], cycle>>])
       IN  /\ \E q \in AllOrderings(n) :
                  q[1] = 0 /\ q # cycle /\ ClosedCost(niche_adj_matrix, q) = max_cost
           /\ \E x \in 1 .. (cycle[n] - 1) : res[x][1] = max_cost

\* ------------------------------------- claims: unrecognized strategy
\* C27: for a value of options.trajectory_construct other than 'BF' and
\* 'TSP' the call produces no ordering: it ends in an error instead of
\* returning an empty or default path, whatever the matrix is.
C27_UnknownStrategyFails ==
    /\ (trajectory_construct \notin {"BF", "TSP"} /\ pc = "done")
          => /\ outcome = "UnboundLocalError"
             /\ niche_trajectory_path = Unbound
    /\ (trajectory_construct \notin {"BF", "TSP"}) => (pc \in {"start", "done"} /\ C = <<>> /\ path = Unbound)

\* C27 witness: a call with another strategy value on a valid matrix has
\* ended in the error.
C27_Witness ==
    /\ pc = "done"
    /\ trajectory_construct = "other"
    /\ IsValid(niche_adj_matrix)
    /\ MatLen(niche_adj_matrix) >= 3
    /\ outcome = "UnboundLocalError"

\* -------------------------------------------------- BatchTrain.train
\* Losses and min_delta are exact fractions; np.inf is the pair 1, 0 and a
\* nan loss is NaN.  The parameters of the model are stood for by the number
\* of epochs that have trained them.
Inf == <<1, 0>>

\* line 59: min_loss - train_loss < min_loss * min_delta, for a loss that is
\* not nan.  While min_loss is inf the left side is inf and the right side
\* is inf or nan (for min_delta = 0), and inf is below neither.
NoImprovement(least, loss, delta) ==
    IF least = Inf THEN FALSE
    ELSE (least[1] * loss[2] - loss[1] * least[2]) * delta[2] < least[1] * delta[1] * loss[2]

\* Mutant of ShouldStop: the test epoch >= min_epochs of line 66 is left out.
ShouldStop_NoMinEpochs(limit, count, e, least_epochs) == limit # 0 /\ count >= limit

\* Mutant of ShouldStop: the test max_patience != 0 of line 66 is left out.
ShouldStop_ZeroPatience(limit, count, e, least_epochs) == count >= limit /\ e >= least_epochs

\* line 66: the early stop after the epoch e
ShouldStop(limit, count, e, least_epochs) == limit # 0 /\ count >= limit /\ e >= least_epochs

\* the losses that train_epoch returns
Losses == {Frac(v, 1) : v \in 0 .. MaxLoss} \cup {NaN}

\* a call train(max_epochs, max_patience, min_delta, min_epochs, **kwargs)
InitTrain ==
    /\ SolverIdle
    /\ LocalsUnset
    /\ CellIdle
    /\ PipelineIdle
    /\ IOIdle
    /\ history = <<>>
    /\ reverse = FALSE
    /\ niche_cluster_score = <<>>
    /\ nc_scores = <<>>
    /\ pc = "train_start"
    /\ outcome = "running"
    /\ max_epochs \in 0 .. MaxEpochs
    /\ max_patience \in (0 - 1) .. MaxPatience
    /\ min_delta \in {Frac(0, 1), Frac(1, 2)}
    /\ min_epochs \in 0 .. MaxEpochs
    /\ output \in BOOLEAN
    /\ state_dict_is_view \in BOOLEAN
    /\ epoch = 0 - 1
    /\ train_loss = Frac(0, 1)
    /\ min_loss = Frac(0, 1)
    /\ patience = 0
    /\ best_params = 0
    /\ model_params = 0
    /\ saved_epochs = {}

train_frame == <<niche_trajectory_path, solver_vars, score_vars, cell_vars, nt_vars, history,
                 plot_vars, io_vars, max_epochs, max_patience, min_delta, min_epochs, output,
                 state_dict_is_view>>

\* lines 45-50
TrainStart ==
    /\ pc = "train_start"
    /\ min_loss' = Inf
    /\ patience' = 0
    /\ best_params' = model_params
    /\ pc' = "train_loop"
    /\ UNCHANGED <<outcome, epoch, train_loss, model_params, saved_epochs, train_frame>>

\* lines 52-70: one epoch.  train_epoch changes the parameters of the model
\* and returns a loss; state_dict() of torch is not among the sources: it
\* hands out either a copy or the live tensors, which follow the model.
\* round_epoch_filter is not among the sources either: it says yes or no.
TrainEpoch ==
    /\ pc = "train_loop"
    /\ epoch + 1 < max_epochs
    /\ \E loss \in Losses, round \in BOOLEAN :
          LET e == epoch + 1
              trained == model_params + 1
              kept == IF state_dict_is_view THEN trained ELSE best_params
              count == IF IsNaN(loss) \/ max_patience = 0 THEN patience
                       ELSE IF NoImprovement(min_loss, loss, min_delta) THEN patience + 1
                       ELSE 0
          IN  /\ epoch' = e
              /\ model_params' = trained
              /\ train_loss' = loss
              /\ patience' = count
              /\ IF IsNaN(loss)
                 THEN /\ best_params' = trained
                      /\ UNCHANGED <<min_loss, saved_epochs>>
                      /\ pc' = "train_load"
                 ELSE /\ IF max_patience = 0
                         THEN best_params' = trained /\ UNCHANGED min_loss
                         ELSE IF NoImprovement(min_loss, loss, min_delta)
                         THEN best_params' = kept /\ UNCHANGED min_loss
                         ELSE best_params' = trained /\ min_loss' = loss
                      /\ IF ShouldStop(max_patience, count, e, min_epochs)
                         THEN pc' = "train_load" /\ UNCHANGED saved_epochs
                         ELSE /\ pc' = "train_loop"
                              /\ saved_epochs' = IF round /\ output
                                                 THEN saved_epochs \cup {e + 1}
                                                 ELSE saved_epochs
    /\ UNCHANGED <<outcome, train_frame>>

\* line 52: range(max_epochs) is exhausted
TrainExhausted ==
    /\ pc = "train_loop"
    /\ epoch + 1 >= max_epochs
    /\ pc' = "train_load"
    /\ UNCHANGED <<outcome, epoch, train_loss, min_loss, patience, best_params, model_params,
                   saved_epochs, train_frame>>

\* line 71
TrainLoad ==
    /\ pc = "train_load"
    /\ model_params' = best_params
    /\ pc' = "train_done"
    /\ outcome' = "returned"
    /\ UNCHANGED <<epoch, train_loss, min_loss, patience, best_params, saved_epochs, train_frame>>

NextTrain == TrainStart \/ TrainEpoch \/ TrainExhausted \/ TrainLoad

\* train runs in one thread: whenever it has a next step it takes it, and
\* train_epoch is taken to return
SpecTrain == InitTrain /\ [][NextTrain]_vars /\ WF_vars(NextTrain)

\* ---------------------------------------------- claims: BatchTrain.train
\* train has left its loop
LoopLeft == pc \in {"train_load", "train_done"}

\* C28: train stops before max_epochs only when the epoch loss is nan, or
\* when max_patience is not 0, the count of epochs in a row without
\* sufficient improvement has reached max_patience and at least min_epochs
\* epochs have been run; every improving epoch sets the count to 0 and every
\* epoch without improvement raises it by one.
C28_EarlyStopOnlyByPatience ==
    /\ []((LoopLeft /\ epoch + 1 < max_epochs) =>
             \/ IsNaN(train_loss)
             \/ (max_patience # 0 /\ patience >= max_patience /\ epoch + 1 >= min_epochs))
    /\ [][(pc = "train_loop" /\ epoch' = epoch + 1 /\ ~IsNaN(train_loss')) =>
             IF NoImprovement(min_loss, train_loss', min_delta)
             THEN patience' = patience + 1
             ELSE patience' = 0]_vars

\* C28 witness: train has stopped before max_epochs without a nan loss,
\* after MaxPatience epochs in a row that did not improve on a loss below
\* MaxLoss, min_epochs being at least 1.
C28_Witness ==
    /\ pc = "train_done"
    /\ epoch + 1 < max_epochs
    /\ ~IsNaN(train_loss)
    /\ max_patience = MaxPatience
    /\ patience = max_patience
    /\ min_epochs >= 1
    /\ FracLess(min_loss, Frac(MaxLoss, 1))

\* C29: train ends after at most max_epochs calls of train_epoch; with
\* max_patience = 0 and no nan loss it runs exactly max_epochs epochs and
\* ends with the parameters of the last epoch.
C29_TrainTerminates ==
    /\ [](epoch + 1 <= max_epochs /\ model_params <= max_epochs)
    /\ <>(pc = "train_done")
    /\ []((pc = "train_done" /\ max_patience = 0 /\ ~IsNaN(train_loss)) =>
             /\ epoch + 1 = max_epochs
             /\ model_params = max_epochs
             /\ best_params = max_epochs)

\* C29 witness: train has run MaxEpochs epochs without early stopping, the
\* last of them with a greater loss than the first could have had, and
\* holds the parameters of the last epoch, state_dict() being a copy.
C29_Witness ==
    /\ pc = "train_done"
    /\ max_patience = 0
    /\ max_epochs = MaxEpochs
    /\ min_epochs = 0
    /\ ~state_dict_is_view
    /\ train_loss = Frac(MaxLoss, 1)
    /\ epoch + 1 = MaxEpochs
    /\ model_params = MaxEpochs

\* ------------------------------------------------ validate_io_options
\* An option value is None or a string; a string is the list of its parts,
\* each part being one of the texts below, so that a string ends in 'csv'
\* exactly when its last part is "csv" and in 'csv.gz' exactly when its last
\* two parts are "csv", ".gz".
PathParts == {"data.", "csv", ".gz", "txt"}
None == [is_none |-> TRUE, str |-> <<>>]
Str(s) == [is_none |-> FALSE, str |-> s]

\* the strings of at most MaxPathLen parts, the empty string included
PathStrings == UNION {[1 .. len -> PathParts] : len \in 0 .. MaxPathLen}

\* `not value` for an option value: None and the empty string are false
Falsy(value) == value.is_none \/ value.str = <<>>

\* str.endswith(suffix) for one suffix, and for a tuple of suffixes
EndsWith(s, suffix) ==
    /\ Len(s) >= Len(suffix)
    /\ SubSeq(s, Len(s) - Len(suffix) + 1, Len(s)) = suffix
EndsWithAny(s, suffixes) == \E suffix \in suffixes : EndsWith(s, suffix)

\* the tuple ('csv', 'csv.gz') of line 50
CsvSuffixes == {<<"csv">>, <<"csv", ".gz">>}

\* the names that io_options may hold
IONames == {"dataset", "preprocessing_dir", "GNN_dir", "NTScore_dir"}

\* a call validate_io_options(optparser, options, io_options): io_options is
\* None or a list of names, every directory option is None or a name, the
\* dataset option is None or a string, and that string names a file or not
InitIO ==
    /\ SolverIdle
    /\ LocalsUnset
    /\ CellIdle
    /\ PipelineIdle
    /\ TrainIdle
    /\ history = <<>>
    /\ reverse = FALSE
    /\ niche_cluster_score = <<>>
    /\ nc_scores = <<>>
    /\ pc = "io_start"
    /\ outcome = "running"
    /\ io_options \in {[is_none |-> TRUE, names |-> {}]}
                         \cup {[is_none |-> FALSE, names |-> ns] : ns \in SUBSET IONames}
    /\ \E d \in {None} \cup {Str(s) : s \in PathStrings},
          dirs \in [{"preprocessing_dir", "GNN_dir", "NTScore_dir"} -> {None, Str(<<"data.">>)}] :
          /\ options = [dataset |-> d, preprocessing_dir |-> dirs["preprocessing_dir"],
                        GNN_dir |-> dirs["GNN_dir"], NTScore_dir |-> dirs["NTScore_dir"]]
          /\ files \in (IF Falsy(d) THEN {{}} ELSE {{}, {d.str}})
    /\ printed = <<>>
    /\ help_printed = FALSE
    /\ exit_status = 0

io_frame == <<niche_trajectory_path, solver_vars, score_vars, cell_vars, nt_vars, history,
              plot_vars, train_vars, io_options, options, files>>

\* error(message); optparser.print_help(); sys.exit(1).  error() of ONTraC.log
\* is not among the sources: each of its calls here is followed by
\* print_help() and sys.exit(1), so it is taken to log the message and return.
ExitWith(message) ==
    /\ printed' = Append(printed, message)
    /\ help_printed' = TRUE
    /\ exit_status' = 1
    /\ pc' = "io_done"
    /\ outcome' = "SystemExit"

\* the next check goes on
GoOn(next) ==
    /\ pc' = next
    /\ UNCHANGED <<outcome, printed, help_printed, exit_status>>

\* lines 39-40
IOStart ==
    /\ pc = "io_start"
    /\ IF io_options.is_none
       THEN /\ pc' = "io_done"
            /\ outcome' = "returned"
            /\ UNCHANGED <<printed, help_printed, exit_status>>
       ELSE GoOn("io_dataset")
    /\ UNCHANGED io_frame

\* lines 42-53: the message of the first check that fails, or "ok"
DatasetCheck(value, isfile) ==
    IF Falsy(value) THEN "Please provide a dataset."
    ELSE IF ~isfile THEN "The input file you given does not exist."
    ELSE IF EndsWithAny(value.str, CsvSuffixes) THEN "The input file should be in csv format."
    ELSE "ok"

\* lines 41-53
IODataset ==
    /\ pc = "io_dataset"
    /\ IF "dataset" \in io_options.names
       THEN LET message == DatasetCheck(options.dataset, options.dataset.str \in files)
            IN  IF message = "ok" THEN GoOn("io_preprocessing_dir") ELSE ExitWith(message)
       ELSE GoOn("io_preprocessing_dir")
    /\ UNCHANGED io_frame

\* lines 55-59, 61-65 and 67-71: the check of one directory option
DirCheck(name, message, next) ==
    IF name \in io_options.names /\ Falsy(options[name])
    THEN ExitWith(message)
    ELSE GoOn(next)

\* lines 55-59
IOPreprocessingDir ==
    /\ pc = "io_preprocessing_dir"
    /\ DirCheck("preprocessing_dir", "Please provide a directory for preprocessing outputs.",
                "io_GNN_dir")
    /\ UNCHANGED io_frame

\* lines 61-65
IOGNNDir ==
    /\ pc = "io_GNN_dir"
    /\ DirCheck("GNN_dir", "Please provide a directory for the GNN output.", "io_NTScore_dir")
    /\ UNCHANGED io_frame

\* lines 67-71, and the end of the function
IONTScoreDir ==
    /\ pc = "io_NTScore_dir"
    /\ IF "NTScore_dir" \in io_options.names /\ Falsy(options.NTScore_dir)
       THEN ExitWith("Please provide a directory for the NTScore output.")
       ELSE /\ pc' = "io_done"
            /\ outcome' = "returned"
            /\ UNCHANGED <<printed, help_printed, exit_status>>
    /\ UNCHANGED io_frame

NextIO == IOStart \/ IODataset \/ IOPreprocessingDir \/ IOGNNDir \/ IONTScoreDir

SpecIO == InitIO /\ [][NextIO]_vars

\* ------------------------------------------ claims: validate_io_options
\* the messages of the three checks of the dataset
DatasetMessages ==
    {"Please provide a dataset.", "The input file you given does not exist.",
     "The input file should be in csv format."}

\* the dataset is given, is an existing file and is in csv format
DatasetInCsvFormat ==
    /\ ~Falsy(options.dataset)
    /\ options.dataset.str \in files
    /\ EndsWithAny(options.dataset.str, CsvSuffixes)

\* C30: with 'dataset' among the io options, validate_io_options does not
\* exit on a dataset path that is given, is an existing file and ends in csv
\* or csv.gz, and exits with status 1 when the dataset is missing, is not an
\* existing file or is not in csv format.
C30_DatasetValidated ==
    (pc = "io_done" /\ ~io_options.is_none /\ "dataset" \in io_options.names) =>
        IF DatasetInCsvFormat
        THEN \A k \in 1 .. Len(printed) : printed[k] \notin DatasetMessages
        ELSE /\ outcome = "SystemExit"
             /\ exit_status = 1
             /\ Len(printed) = 1
             /\ printed[1] \in DatasetMessages

====
